---- MODULE Spec2Model ----
(***************************************************************************)
(* A model of the real-time pipeline of the stock monitor server:          *)
(*   CronService      (services/cron.service.ts)   the orchestrator        *)
(*   StockService     (services/stock.service.ts)  classifier + store API  *)
(*   AlertService     (services/alert.service.ts)  alert engine            *)
(*   WebSocketService (services/websocket.service.ts) broadcast side       *)
(*   Database         (config/database.ts)         one shared SQLite handle*)
(* Every await of the source is a point where the model may interleave     *)
(* other handlers; the code between two awaits is one atomic action.       *)
(***************************************************************************)
EXTENDS Integers, Sequences, FiniteSets, TLC

VARIABLES
    isRunning,          \* CronService.isRunning
    lastRun,            \* CronService.lastRun   (NoDate = undefined)
    nextRun,            \* CronService.nextRun   (NoDate = undefined)
    scrapingTask,       \* CronService.scrapingTask: "unset" | "running" | "stopped"
    startupTimer,       \* the setTimeout(…, 5000) of start() is armed
    cyc,                \* per invocation slot: the locals and position of runScrapingTask
    trace,              \* per invocation slot: what the invocation did, in order (history)
    db,                 \* the SQLite database behind the shared handle
    txn,                \* <<the database as it was at BEGIN TRANSACTION>>, or NoTxn
    now,                \* the wall clock
    lastCall,           \* what became of the last call of runScrapingTask (history)
    lastBroadcastData,  \* StockService.lastBroadcastData
    hasEverBroadcast,   \* StockService.hasEverBroadcast
    processUp,          \* the node process has not exited
    faults,             \* how many database statements have failed so far (history)
    clients,            \* WebSocketService.clients: the ids in the registry
    isAlive,            \* per client id: ConnectedClient.isAlive
    sock,               \* per client id: the state of its WebSocket
    catchUp,            \* per client id: the setTimeout(…, 1000) of its connect is armed
    missed,             \* per client id: heartbeat ticks since its last pong (history)
    heartbeatInterval,  \* the setInterval of startHeartbeat is running
    wss,                \* the WebSocket.Server: "open" | "closing" | "closed"
    shutdown,           \* where gracefulShutdown of index.ts is
    sent,               \* what the hub has sent in the last step, in order (history)
    prunes,             \* the clock readings at which cleanOldData was called (history)
    limit,              \* how far a run of the model goes: [time, faults]
    response            \* the last HTTP response of a controller: [status, body]

vars == <<isRunning, lastRun, nextRun, scrapingTask, startupTimer, cyc, trace,
          db, txn, now, lastCall, lastBroadcastData, hasEverBroadcast, processUp,
          faults, clients, isAlive, sock, catchUp, missed, heartbeatInterval, wss,
          shutdown, sent, prunes, limit, response>>

----------------------------------------------------------------------------
\* Bounds of the model

\* the clock runs from 0 to MaxTime
MaxTime == 2
\* how many calls of runScrapingTask may be in flight at once
NumSlots == 2

\* how many database statements may fail in one run of the model
MaxFaults == 2
\* how many connections the hub accepts in one run of the model
MaxClients == 2
\* the clock and the failing statements of the runs that are long enough for
\* two prunes
MaxPruneTime == 4
MaxPruneFaults == 1
\* the runs with HTTP clients: clock units, failing statements, rule rows ever
\* created (the seeded one included)
MaxApiTime == 1
MaxApiFaults == 1
MaxRules == 2
\* the runs of three cycles: clock units (one per fetch), failing statements
MaxHistoryTime == 3
MaxHistoryFaults == 1

\* Scale of the clock: one unit is one hour.
Hour == 1
\* SCRAPING_INTERVAL_MINUTES, in clock units
IntervalUnits == 1
\* cleanOldData(30): 30 days, in clock units
RetentionUnits == 720

\* an absent symbol (SQL NULL / undefined) of a rule
Null == "null"
\* an absent optional number is the empty sequence, a present one <<x>>
None == <<>>
Some(x) == <<x>>
\* an undefined Date (dates are clock readings >= 0)
NoDate == -1
\* no transaction is open on the connection
NoTxn == <<>>
Slots == 1..NumSlots

----------------------------------------------------------------------------
\* Data: what the snapshot source can yield

\* StockData as parseStockData builds it. id 0 stands for the undefined id of a
\* scraped stock (every use is `id || 0`); the timestamp is set at the fetch.
Stock(sym, name, pct, price, vol, cap, rank) ==
    [id |-> 0, symbol |-> sym, companyName |-> name, percentChange |-> pct,
     premarketPrice |-> price, premarketVolume |-> vol, marketCap |-> cap,
     rank |-> rank, timestamp |-> 0]

BatchA == << Stock("AAPL", "Apple", 5, 100, 500000, "3T", 1) >>
BatchB == << Stock("AAPL", "Apple", 7, 102, 500000, "3T", 1),
             Stock("TSLA", "Tesla", 10, 200, 900000, "1T", 2) >>
BatchC == << Stock("TSLA", "Tesla", 25, 200, 2000000, "1T", 1),
             Stock("AAPL", "Apple", 7, 102, 500000, "3T", 2) >>

\* the batches a successful scrape may return (never empty: parseStockData throws)
Batches == {BatchA, BatchB}

\* the alert_rules table the server is started on
InitialRules ==
    << [id |-> 1, symbol |-> Null, min_percent_change |-> Some(20),
        max_percent_change |-> None, min_volume |-> None, enabled |-> 1] >>

----------------------------------------------------------------------------
\* Sequence helpers

RECURSIVE SelectSeqBy(_, _)
\* Array.prototype.filter on the symbols of a batch
SelectSeqBy(seq, sym) ==
    IF seq = <<>> THEN <<>>
    ELSE IF Head(seq).symbol = sym
         THEN <<Head(seq)>> \o SelectSeqBy(Tail(seq), sym)
         ELSE SelectSeqBy(Tail(seq), sym)

RECURSIVE InsertByRank(_, _)
InsertByRank(x, sorted) ==
    IF sorted = <<>> THEN <<x>>
    ELSE IF x.rank < Head(sorted).rank
         THEN <<x>> \o sorted
         ELSE <<Head(sorted)>> \o InsertByRank(x, Tail(sorted))

RECURSIVE SortByRank(_)
\* Array.prototype.sort((a, b) => a.rank - b.rank), which is stable
SortByRank(seq) ==
    IF seq = <<>> THEN <<>>
    ELSE InsertByRank(Head(seq), SortByRank(Tail(seq)))

\* JavaScript truthiness of an optional number: undefined, null and 0 are falsy
Truthy(opt) == opt # None /\ opt[1] # 0

\* JavaScript's x || null (and x || undefined) on an optional number
OrNull(opt) == IF Truthy(opt) THEN opt ELSE None

----------------------------------------------------------------------------
\* The database (config/database.ts): four tables behind one connection

EmptyDb ==
    [stocks |-> {}, stock_updates |-> {}, scraping_logs |-> <<>>,
     alert_rules |-> InitialRules, seq_stocks |-> 0, seq_updates |-> 0,
     seq_rules |-> Len(InitialRules)]

\* INSERT OR REPLACE INTO stocks: UNIQUE(symbol, timestamp), id AUTOINCREMENT
InsertStock(d, stock, timestamp) ==
    LET id  == d.seq_stocks + 1
        row == [id |-> id, symbol |-> stock.symbol, company_name |-> stock.companyName,
                percent_change |-> stock.percentChange,
                premarket_price |-> stock.premarketPrice,
                premarket_volume |-> stock.premarketVolume,
                market_cap |-> stock.marketCap, rank |-> stock.rank,
                timestamp |-> timestamp]
        kept == {r \in d.stocks : ~(r.symbol = stock.symbol /\ r.timestamp = timestamp)}
    IN [d EXCEPT !.stocks = kept \cup {row}, !.seq_stocks = id]

\* INSERT INTO scraping_logs
InsertLog(d, result) ==
    [d EXCEPT !.scraping_logs = Append(@,
        [success |-> IF result.success THEN 1 ELSE 0,
         total_stocks |-> result.totalStocks,
         error_message |-> result.error,
         execution_time_ms |-> 0,
         timestamp |-> result.timestamp])]

\* a rational number num/den (den > 0), for change_percent
Ratio(n, d) == [num |-> n, den |-> d]
RatioGT(r, k) == r.num > k * r.den
OrNullRatio(opt) == IF opt # None /\ opt[1].num # 0 THEN opt ELSE None

\* insertStockUpdate: one INSERT INTO stock_updates, returns lastID.
\* prev is None or Some(stock); amount is None or Some(n); pct None or Some(ratio)
StockUpdateRow(d, cur, prev, changeType, amount, pct) ==
    [id |-> d.seq_updates + 1,
     stock_id |-> cur.id,
     previous_percent_change |->
         IF prev = None THEN None ELSE OrNull(Some(prev[1].percentChange)),
     current_percent_change |-> cur.percentChange,
     previous_price |->
         IF prev = None THEN None ELSE OrNull(Some(prev[1].premarketPrice)),
     current_price |-> cur.premarketPrice,
     previous_rank |-> IF prev = None THEN None ELSE OrNull(Some(prev[1].rank)),
     current_rank |-> cur.rank,
     change_type |-> changeType,
     change_amount |-> OrNull(amount),
     change_percent |-> OrNullRatio(pct),
     timestamp |-> cur.timestamp]

InsertStockUpdate(d, cur, prev, changeType, amount, pct) ==
    LET row == StockUpdateRow(d, cur, prev, changeType, amount, pct)
    IN [d EXCEPT !.stock_updates = @ \cup {row}, !.seq_updates = row.id]

\* DELETE FROM stocks / stock_updates / scraping_logs WHERE timestamp < cutoff
DeleteStocksBefore(d, cutoff) ==
    [d EXCEPT !.stocks = {r \in @ : ~(r.timestamp < cutoff)}]
DeleteUpdatesBefore(d, cutoff) ==
    [d EXCEPT !.stock_updates = {r \in @ : ~(r.timestamp < cutoff)}]
DeleteLogsBefore(d, cutoff) ==
    [d EXCEPT !.scraping_logs = SelectSeq(@, LAMBDA r : ~(r.timestamp < cutoff))]

----------------------------------------------------------------------------
\* Change detector and classifier (StockService)

mapDatabaseStockToStockData(row) ==
    [id |-> row.id, symbol |-> row.symbol, companyName |-> row.company_name,
     percentChange |-> row.percent_change, premarketPrice |-> row.premarket_price,
     premarketVolume |-> row.premarket_volume, marketCap |-> row.market_cap,
     rank |-> row.rank, timestamp |-> row.timestamp]

\* a lookup that searches the snapshot rows of the latest earlier cycle only
PreviousStockRow_LastCycleOnly(d, sym, ts) ==
    LET cand == {r \in d.stocks :
                    /\ r.symbol = sym /\ r.timestamp < ts
                    /\ \A q \in d.stocks : q.timestamp < ts => q.timestamp <= r.timestamp}
    IN IF cand = {} THEN None
       ELSE Some(CHOOSE r \in cand : \A q \in cand : q.timestamp <= r.timestamp)

\* SELECT * FROM stocks WHERE symbol = ? AND timestamp < ?
\*   ORDER BY timestamp DESC LIMIT 1      (None when there is no such row)
PreviousStockRow(d, sym, ts) ==
    LET cand == {r \in d.stocks : r.symbol = sym /\ r.timestamp < ts}
    IN IF cand = {} THEN None
       ELSE Some(CHOOSE r \in cand : \A q \in cand : q.timestamp <= r.timestamp)

\* a classifier that also reports a change of percentChange
determineChangeType_PercentToo(previous, current) ==
    IF current.premarketPrice > previous.premarketPrice THEN "PRICE_INCREASE"
    ELSE IF current.premarketPrice < previous.premarketPrice THEN "PRICE_DECREASE"
    ELSE IF \/ current.rank # previous.rank
            \/ current.percentChange # previous.percentChange THEN "RANK_CHANGE"
    ELSE Null

\* a classifier that looks at the rank before the price
determineChangeType_RankFirst(previous, current) ==
    IF current.rank # previous.rank THEN "RANK_CHANGE"
    ELSE IF current.premarketPrice > previous.premarketPrice THEN "PRICE_INCREASE"
    ELSE IF current.premarketPrice < previous.premarketPrice THEN "PRICE_DECREASE"
    ELSE Null

\* determineChangeType: Null for "no significant change"
determineChangeType(previous, current) ==
    IF current.premarketPrice > previous.premarketPrice THEN "PRICE_INCREASE"
    ELSE IF current.premarketPrice < previous.premarketPrice THEN "PRICE_DECREASE"
    ELSE IF current.rank # previous.rank THEN "RANK_CHANGE"
    ELSE Null

\* a loop body that takes the percentage of the current price
AnalyzeOne_PercentOfCurrent(d, updates, cur) ==
    LET prevRow == PreviousStockRow(d, cur.symbol, cur.timestamp)
    IN IF prevRow = None
       THEN LET d2 == InsertStockUpdate(d, cur, None, "NEW", None, None)
                id == d2.seq_updates
            IN << d2, Append(updates,
                   [id |-> id, stockId |-> id, previousData |-> cur,
                    currentData |-> cur, changeType |-> "NEW",
                    changeAmount |-> None, changePercent |-> None,
                    timestamp |-> cur.timestamp]) >>
       ELSE LET prevData == mapDatabaseStockToStockData(prevRow[1])
                changeType == determineChangeType(prevData, cur)
                amount == cur.premarketPrice - prevData.premarketPrice
                pct == Ratio(amount * 100, cur.premarketPrice)
            IN IF changeType = Null THEN << d, updates >>
               ELSE LET d2 == InsertStockUpdate(d, cur, Some(prevData), changeType,
                                                Some(amount), Some(pct))
                        id == d2.seq_updates
                    IN << d2, Append(updates,
                           [id |-> id, stockId |-> id, previousData |-> prevData,
                            currentData |-> cur, changeType |-> changeType,
                            changeAmount |-> Some(amount), changePercent |-> Some(pct),
                            timestamp |-> cur.timestamp]) >>

\* a loop body that passes over a stock without a previous row
AnalyzeOne_SkipsNew(d, updates, cur) ==
    LET prevRow == PreviousStockRow(d, cur.symbol, cur.timestamp)
    IN IF prevRow = None
       THEN << d, updates >>
       ELSE LET prevData == mapDatabaseStockToStockData(prevRow[1])
                changeType == determineChangeType(prevData, cur)
                amount == cur.premarketPrice - prevData.premarketPrice
                pct == Ratio(amount * 100, prevData.premarketPrice)
            IN IF changeType = Null THEN << d, updates >>
               ELSE LET d2 == InsertStockUpdate(d, cur, Some(prevData), changeType,
                                                Some(amount), Some(pct))
                        id == d2.seq_updates
                    IN << d2, Append(updates,
                           [id |-> id, stockId |-> id, previousData |-> prevData,
                            currentData |-> cur, changeType |-> changeType,
                            changeAmount |-> Some(amount), changePercent |-> Some(pct),
                            timestamp |-> cur.timestamp]) >>

\* The body of the loop of analyzeStockChanges for one stock: the pair
\* <<database after the insert, updates after the push>>.
AnalyzeOne(d, updates, cur) ==
    LET prevRow == PreviousStockRow(d, cur.symbol, cur.timestamp)
    IN IF prevRow = None
       THEN LET d2 == InsertStockUpdate(d, cur, None, "NEW", None, None)
                id == d2.seq_updates
            IN << d2, Append(updates,
                   [id |-> id, stockId |-> id, previousData |-> cur,
                    currentData |-> cur, changeType |-> "NEW",
                    changeAmount |-> None, changePercent |-> None,
                    timestamp |-> cur.timestamp]) >>
       ELSE LET prevData == mapDatabaseStockToStockData(prevRow[1])
                changeType == determineChangeType(prevData, cur)
                amount == cur.premarketPrice - prevData.premarketPrice
                pct == Ratio(amount * 100, prevData.premarketPrice)
            IN IF changeType = Null THEN << d, updates >>
               ELSE LET d2 == InsertStockUpdate(d, cur, Some(prevData), changeType,
                                                Some(amount), Some(pct))
                        id == d2.seq_updates
                    IN << d2, Append(updates,
                           [id |-> id, stockId |-> id, previousData |-> prevData,
                            currentData |-> cur, changeType |-> changeType,
                            changeAmount |-> Some(amount), changePercent |-> Some(pct),
                            timestamp |-> cur.timestamp]) >>

\* |x|
Abs(x) == IF x < 0 THEN -x ELSE x

\* The pairs of numbers one hundredth apart, among those the cache is tried
\* on, whose difference exceeds 0.01 when it is computed in IEEE-754 doubles,
\* as Math.abs(a - b) > 0.01 computes it: 100.01 - 100 is
\* 0.010000000000005116, while 100.02 - 100.01 is 0.009999999999990905 and
\* 5.01 - 5 and 5.02 - 5.01 are 0.009999999999999787.
RoundedAbove == { <<10000, 10001>> }

\* Math.abs(a - b) > 0.01 on two numbers given in hundredths
ExceedsHundredth(a, b) ==
    \/ Abs(a - b) > 1
    \/ Abs(a - b) = 1 /\ << IF a < b THEN a ELSE b, IF a < b THEN b ELSE a >> \in RoundedAbove

\* hasStockChanged. It reads premarketPrice and percentChange in hundredths
\* (a price of 10001 is 100.01).
hasStockChanged(lastStock, newStock) ==
    \/ ExceedsHundredth(newStock.premarketPrice, lastStock.premarketPrice)
    \/ ExceedsHundredth(newStock.percentChange, lastStock.percentChange)
    \/ Abs(newStock.premarketVolume - lastStock.premarketVolume) > 1000
    \/ Abs(newStock.rank - lastStock.rank) > 0
    \/ newStock.companyName # lastStock.companyName

\* new Map(stocks.map(s => [s.symbol, s])).get(sym): the last entry of the symbol
MapGet(stocks, sym) ==
    LET hits == SelectSeqBy(stocks, sym) IN hits[Len(hits)]

SymbolsOf(stocks) == {stocks[i].symbol : i \in 1..Len(stocks)}

\* hasDataChanged(newStocks) as a function of the cache it reads
hasDataChangedFor(everBroadcast, lastData, newStocks) ==
    IF ~everBroadcast \/ Len(lastData) = 0 THEN TRUE
    ELSE IF Len(newStocks) # Len(lastData) THEN TRUE
    ELSE IF SymbolsOf(newStocks) # SymbolsOf(lastData) THEN TRUE
    ELSE \E sym \in SymbolsOf(newStocks) :
            hasStockChanged(MapGet(lastData, sym), MapGet(newStocks, sym))

\* hasDataChanged(newStocks) against the last-broadcast cache
hasDataChanged(newStocks) ==
    hasDataChangedFor(hasEverBroadcast, lastBroadcastData, newStocks)

----------------------------------------------------------------------------
\* Alert engine (AlertService)

\* defaultThresholds.minPercentChange (ALERT_THRESHOLDS_PERCENT_CHANGE || '20')
MinPercentChange == 20
\* defaultThresholds.significantRankChange
SignificantRankChange == 10

Alert(stock, update, alertType, message) ==
    [stock |-> stock, update |-> update, alertType |-> alertType, message |-> message]

\* built-in checks of which only the first that applies raises an alert
checkBuiltInAlerts_FirstOnly(stock, update) ==
    IF stock.percentChange >= MinPercentChange
    THEN << Alert(stock, update, "HIGH_GAIN", "gained") >>
    ELSE IF /\ update.changeType = "PRICE_INCREASE"
            /\ update.changePercent # None
            /\ update.changePercent[1].num # 0
            /\ RatioGT(update.changePercent[1], 15)
    THEN << Alert(stock, update, "PRICE_SPIKE", "spiked") >>
    ELSE IF update.changeType = "NEW" /\ stock.rank <= 10
    THEN << Alert(stock, update, "NEW_TOP_GAINER", "entered top 10") >>
    ELSE IF /\ update.changeType = "RANK_CHANGE"
            /\ update.previousData.rank - update.currentData.rank >= SignificantRankChange
    THEN << Alert(stock, update, "RANK_IMPROVEMENT", "jumped") >>
    ELSE IF stock.premarketVolume > 1000000
    THEN << Alert(stock, update, "HIGH_VOLUME", "high volume") >>
    ELSE <<>>

\* checkBuiltInAlerts; a message is named by its template
checkBuiltInAlerts(stock, update) ==
       (IF stock.percentChange >= MinPercentChange
        THEN << Alert(stock, update, "HIGH_GAIN", "gained") >> ELSE <<>>)
    \o (IF /\ update.changeType = "PRICE_INCREASE"
           /\ update.changePercent # None
           /\ update.changePercent[1].num # 0
           /\ RatioGT(update.changePercent[1], 15)
        THEN << Alert(stock, update, "PRICE_SPIKE", "spiked") >> ELSE <<>>)
    \o (IF update.changeType = "NEW" /\ stock.rank <= 10
        THEN << Alert(stock, update, "NEW_TOP_GAINER", "entered top 10") >> ELSE <<>>)
    \o (IF /\ update.changeType = "RANK_CHANGE"
           /\ update.previousData.rank - update.currentData.rank >= SignificantRankChange
        THEN << Alert(stock, update, "RANK_IMPROVEMENT", "jumped") >> ELSE <<>>)
    \o (IF stock.premarketVolume > 1000000
        THEN << Alert(stock, update, "HIGH_VOLUME", "high volume") >> ELSE <<>>)

mapDatabaseRuleToAlertRule(dbRule) ==
    [id |-> dbRule.id, symbol |-> dbRule.symbol,
     minPercentChange |-> OrNull(dbRule.min_percent_change),
     maxPercentChange |-> OrNull(dbRule.max_percent_change),
     minVolume |-> OrNull(dbRule.min_volume),
     enabled |-> (dbRule.enabled = 1)]

\* SELECT * FROM alert_rules WHERE enabled = 1
getActiveAlertRules(d) ==
    LET rows == SelectSeq(d.alert_rules, LAMBDA r : r.enabled = 1)
    IN [i \in 1..Len(rows) |-> mapDatabaseRuleToAlertRule(rows[i])]

\* a rule check in which a matching symbol filter triggers by itself
checkOneRule_SymbolAloneFires(stock, update, rule) ==
    IF rule.symbol # Null /\ rule.symbol # stock.symbol THEN <<>>
    ELSE LET c0 == rule.symbol # Null
             c1 == Truthy(rule.minPercentChange)
                   /\ stock.percentChange >= rule.minPercentChange[1]
             c2 == Truthy(rule.maxPercentChange)
                   /\ stock.percentChange <= rule.maxPercentChange[1]
             c3 == Truthy(rule.minVolume)
                   /\ stock.premarketVolume >= rule.minVolume[1]
             message == IF c3 THEN "minimum volume threshold"
                        ELSE IF c2 THEN "maximum gain threshold"
                        ELSE IF c1 THEN "minimum gain threshold"
                        ELSE "symbol"
         IN IF c0 \/ c1 \/ c2 \/ c3
            THEN << Alert(stock, update, "CUSTOM_RULE", message) >> ELSE <<>>

\* One rule of checkCustomAlertRules: the three ifs run in turn, each
\* overwriting the message; <<>> when the rule is skipped or not triggered.
checkOneRule(stock, update, rule) ==
    IF rule.symbol # Null /\ rule.symbol # stock.symbol THEN <<>>
    ELSE LET c1 == Truthy(rule.minPercentChange)
                   /\ stock.percentChange >= rule.minPercentChange[1]
             c2 == Truthy(rule.maxPercentChange)
                   /\ stock.percentChange <= rule.maxPercentChange[1]
             c3 == Truthy(rule.minVolume)
                   /\ stock.premarketVolume >= rule.minVolume[1]
             message == IF c3 THEN "minimum volume threshold"
                        ELSE IF c2 THEN "maximum gain threshold"
                        ELSE "minimum gain threshold"
         IN IF c1 \/ c2 \/ c3
            THEN << Alert(stock, update, "CUSTOM_RULE", message) >> ELSE <<>>

RECURSIVE checkCustomAlertRules(_, _, _)
checkCustomAlertRules(stock, update, rules) ==
    IF rules = <<>> THEN <<>>
    ELSE checkOneRule(stock, update, Head(rules))
         \o checkCustomAlertRules(stock, update, Tail(rules))

\* a top-performer check that stops before rank 3
checkTopPerformers_BelowThree(stocks) ==
    LET top == SortByRank(SelectSeq(stocks, LAMBDA s : s.rank < 3))
    IN [i \in 1..Len(top) |->
          Alert(top[i],
                [id |-> 0, stockId |-> top[i].id, previousData |-> top[i],
                 currentData |-> top[i], changeType |-> "NEW",
                 changeAmount |-> None, changePercent |-> None,
                 timestamp |-> top[i].timestamp],
                "TOP_PERFORMER", "top performer")]

\* a top-performer check that names the first rank only
checkTopPerformers_FirstOnly(stocks) ==
    LET top == SortByRank(SelectSeq(stocks, LAMBDA s : s.rank <= 1))
    IN [i \in 1..Len(top) |->
          Alert(top[i],
                [id |-> 0, stockId |-> top[i].id, previousData |-> top[i],
                 currentData |-> top[i], changeType |-> "NEW",
                 changeAmount |-> None, changePercent |-> None,
                 timestamp |-> top[i].timestamp],
                "TOP_PERFORMER", "top performer")]

\* checkTopPerformers: one alert per stock of rank <= 3, in rank order
checkTopPerformers(stocks) ==
    LET top == SortByRank(SelectSeq(stocks, LAMBDA s : s.rank <= 3))
    IN [i \in 1..Len(top) |->
          Alert(top[i],
                [id |-> 0, stockId |-> top[i].id, previousData |-> top[i],
                 currentData |-> top[i], changeType |-> "NEW",
                 changeAmount |-> None, changePercent |-> None,
                 timestamp |-> top[i].timestamp],
                "TOP_PERFORMER", "top performer")]

RECURSIVE alertsForUpdates(_, _, _)
\* the loop over the updates of checkForAlerts
alertsForUpdates(stocks, updates, rules) ==
    IF updates = <<>> THEN <<>>
    ELSE LET update == Head(updates)
             found  == SelectSeqBy(stocks, update.currentData.symbol)
             rest   == alertsForUpdates(stocks, Tail(updates), rules)
         IN IF found = <<>> THEN rest
            ELSE checkBuiltInAlerts(found[1], update)
                 \o checkCustomAlertRules(found[1], update, rules)
                 \o rest

\* checkForAlerts, given the active rules it has read
checkForAlerts(stocks, updates, rules) ==
    alertsForUpdates(stocks, updates, rules) \o checkTopPerformers(stocks)

----------------------------------------------------------------------------
\* Messages and events. Every entry of a trace has the same fields.

Ev(name) ==
    [ev |-> name, type |-> "", status |-> "", stocks |-> <<>>, updates |-> <<>>,
     alertType |-> "", symbol |-> "", nextRun |-> NoDate, text |-> <<>>]

\* sendScrapingStatus(status, message, nextRun) -> broadcast
StatusMsg(status, next) ==
    [Ev("broadcast") EXCEPT !.type = "SCRAPING_STATUS", !.status = status,
                            !.nextRun = next]

\* broadcastStockUpdate(stocks, updates, scrapingResult) -> broadcast
StocksUpdateMsg(stocks, updates) ==
    [Ev("broadcast") EXCEPT !.type = "STOCKS_UPDATE", !.stocks = stocks,
                            !.updates = updates]

\* broadcastAlert(stock, update, alertType, message) -> broadcast
AlertMsg(alert) ==
    [Ev("broadcast") EXCEPT !.type = "ALERT", !.alertType = alert.alertType,
                            !.symbol = alert.stock.symbol]

\* for (const alert of alerts) broadcastAlert(...)
AlertMsgs(alerts) == [i \in 1..Len(alerts) |-> AlertMsg(alerts[i])]

----------------------------------------------------------------------------
\* The distribution hub (WebSocketService), sending side

ClientIds == 1..MaxClients

\* A socket is "none" before its connection, then "open" (readyState OPEN and
\* send() succeeds), "broken" (readyState OPEN, send() throws), "closing"
\* (readyState CLOSING or CLOSED, the 'close' event not yet handled), "closed".
SockStates == {"none", "open", "broken", "closing", "closed"}

\* a pass that stops sending at the first client it cannot send to
broadcast_AbortsOnFailure(cl, msg) ==
    LET dead == {c \in cl : sock[c] # "open"}
    IN [kind |-> "broadcast", msg |-> msg, before |-> cl,
        to |-> {c \in cl \ dead : \A d \in dead : c < d}, evicted |-> dead]

\* broadcast(message), one pass over the registry cl: what was sent to whom,
\* and who was collected in deadClients and deleted
broadcast(cl, msg) ==
    LET dead == {c \in cl : sock[c] # "open"}
    IN [kind |-> "broadcast", msg |-> msg, before |-> cl,
        to |-> cl \ dead, evicted |-> dead]

\* Consecutive calls of broadcast in one synchronous stretch: no socket changes
\* state in between, so every call after the first starts from the registry
\* the first one leaves.
BroadcastAll(cl, msgs) ==
    [i \in 1..Len(msgs) |->
        IF i = 1 THEN broadcast(cl, msgs[1])
        ELSE LET first == broadcast(cl, msgs[1])
             IN broadcast(first.before \ first.evicted, msgs[i])]

\* the registry after the sends recs
RegistryAfter(cl, recs) ==
    IF recs = <<>> THEN cl
    ELSE recs[Len(recs)].before \ recs[Len(recs)].evicted

\* the hub broadcasts msgs, one after the other
Deliver(msgs) ==
    LET recs == BroadcastAll(clients, msgs)
    IN /\ clients' = RegistryAfter(clients, recs)
       /\ sent' = recs

\* the broadcasts among the events a step adds to a trace
NewBroadcasts(old, new) ==
    SelectSeq(SubSeq(new, Len(old) + 1, Len(new)), LAMBDA e : e.ev = "broadcast")

\* what a step outside the hub leaves alone in the hub
HubRest ==
    UNCHANGED <<isAlive, sock, catchUp, missed, heartbeatInterval, wss, shutdown>>

\* a step that does not touch the hub
HubQuiet ==
    /\ HubRest
    /\ UNCHANGED clients
    /\ sent' = <<>>

----------------------------------------------------------------------------
\* The orchestrator (CronService)

NoResult ==
    [success |-> FALSE, data |-> <<>>, timestamp |-> 0, error |-> Null,
     totalStocks |-> 0]

\* no request has been answered yet
NoResponse == [status |-> 0, body |-> "none"]

\* the locals of a call of runScrapingTask that is not in flight
IdleCyc ==
    [pc |-> "idle", src |-> "none", startTime |-> NoDate, result |-> NoResult,
     idx |-> 0, stockUpdates |-> <<>>, alerts |-> <<>>, inCatch |-> FALSE,
     saveStocks |-> <<>>, saveResult |-> NoResult]

ActiveSlots == {s \in Slots : cyc[s].pc # "idle"}

FreeSlot == CHOOSE s \in Slots :
                /\ cyc[s].pc = "idle"
                /\ \A t \in Slots : cyc[t].pc = "idle" => s <= t

\* the services as index.ts constructs them, the database apart
InitServices ==
    /\ isRunning = FALSE
    /\ lastRun = NoDate
    /\ nextRun = NoDate
    /\ scrapingTask = "unset"
    /\ startupTimer = FALSE
    /\ cyc = [s \in Slots |-> IdleCyc]
    /\ trace = [s \in Slots |-> <<>>]
    /\ txn = NoTxn
    /\ now = 0
    /\ lastCall = "none"
    /\ lastBroadcastData = <<>>
    /\ hasEverBroadcast = FALSE
    /\ processUp = TRUE
    /\ faults = 0
    /\ clients = {}
    /\ isAlive = [c \in ClientIds |-> FALSE]
    /\ sock = [c \in ClientIds |-> "none"]
    /\ catchUp = [c \in ClientIds |-> FALSE]
    /\ missed = [c \in ClientIds |-> 0]
    /\ heartbeatInterval = TRUE
    /\ wss = "open"
    /\ shutdown = "none"
    /\ sent = <<>>
    /\ prunes = <<>>
    /\ response = NoResponse

\* a run of the model: the clock stops at maxTime, at most maxFaults database
\* statements fail
Run(maxTime, maxFaults) == [time |-> maxTime, faults |-> maxFaults]

\* the server starts on a fresh database file
Init ==
    /\ InitServices
    /\ db = EmptyDb
    /\ limit = Run(MaxTime, MaxFaults)

\* calculateNextRun(intervalMinutes)
calculateNextRun == now + IntervalUnits

\* a prune check that passes in every cycle
shouldCleanOldData_Always == lastRun # NoDate

\* a prune check that throttles against the last call of cleanOldData
shouldCleanOldData_SinceLastPrune ==
    IF prunes = <<>> THEN lastRun # NoDate
    ELSE prunes[Len(prunes)] < now - Hour

\* shouldCleanOldData()
shouldCleanOldData ==
    IF lastRun = NoDate THEN FALSE ELSE lastRun < now - Hour

\* start(): schedule the cron task, compute nextRun, arm the startup run
Start ==
    /\ processUp
    /\ scrapingTask = "unset"
    /\ scrapingTask' = "running"
    /\ nextRun' = calculateNextRun
    /\ startupTimer' = TRUE
    /\ UNCHANGED <<isRunning, lastRun, cyc, trace, db, txn, now, lastCall,
                   lastBroadcastData, hasEverBroadcast, processUp, faults, prunes, limit, response>>
    /\ HubQuiet

\* stop(): stops the cron task, and nothing else
Stop ==
    /\ processUp
    /\ scrapingTask = "running"
    /\ scrapingTask' = "stopped"
    /\ UNCHANGED <<isRunning, lastRun, nextRun, startupTimer, cyc, trace, db, txn,
                   now, lastCall, lastBroadcastData, hasEverBroadcast, processUp, faults, prunes, limit, response>>
    /\ HubQuiet

\* time passes
Tick ==
    /\ processUp
    /\ now < limit.time
    /\ now' = now + 1
    /\ UNCHANGED <<isRunning, lastRun, nextRun, scrapingTask, startupTimer, cyc,
                   trace, db, txn, lastCall, lastBroadcastData, hasEverBroadcast,
                   processUp, faults, prunes, limit, response>>
    /\ HubQuiet

\* a guard that lets every call through
GuardRejects_Never == FALSE

\* the guard of runScrapingTask: if (this.isRunning) return
GuardRejects == isRunning

\* a runScrapingTask that stamps lastRun before it tests the guard
RunScrapingTask_StampsLastRun(src) ==
    /\ processUp
    /\ \E s \in Slots : cyc[s].pc = "idle"
    /\ lastRun' = now
    /\ IF GuardRejects
       THEN /\ lastCall' = "dropped"
            /\ UNCHANGED <<isRunning, cyc, trace>>
            /\ Deliver(<<>>)
       ELSE /\ lastCall' = "started"
            /\ isRunning' = TRUE
            /\ cyc' = [cyc EXCEPT ![FreeSlot] =
                          [IdleCyc EXCEPT !.pc = "fetch", !.src = src,
                                           !.startTime = now]]
            /\ trace' = [trace EXCEPT ![FreeSlot] = << StatusMsg("STARTED", nextRun) >>]
            /\ Deliver(<< StatusMsg("STARTED", nextRun) >>)
    /\ UNCHANGED <<nextRun, db, txn, now, lastBroadcastData, hasEverBroadcast,
                   processUp, faults, prunes, limit>>
    /\ HubRest

\* runScrapingTask from its call to its first await: the guard, the flag,
\* lastRun, the STARTED status, the call of scrapeStockData
RunScrapingTask(src) ==
    /\ processUp
    /\ \E s \in Slots : cyc[s].pc = "idle"
    /\ IF GuardRejects
       THEN /\ lastCall' = "dropped"
            /\ UNCHANGED <<isRunning, lastRun, cyc, trace>>
            /\ Deliver(<<>>)
       ELSE /\ lastCall' = "started"
            /\ isRunning' = TRUE
            /\ lastRun' = now
            /\ cyc' = [cyc EXCEPT ![FreeSlot] =
                          [IdleCyc EXCEPT !.pc = "fetch", !.src = src,
                                           !.startTime = now]]
            /\ trace' = [trace EXCEPT ![FreeSlot] = << StatusMsg("STARTED", nextRun) >>]
            /\ Deliver(<< StatusMsg("STARTED", nextRun) >>)
    /\ UNCHANGED <<nextRun, db, txn, now, lastBroadcastData, hasEverBroadcast,
                   processUp, faults, prunes, limit>>
    /\ HubRest

\* the cron task fires: async () => { await this.runScrapingTask() }
CronFire ==
    /\ scrapingTask = "running"
    /\ RunScrapingTask("cron")
    /\ UNCHANGED <<scrapingTask, startupTimer, response>>

\* the setTimeout of start() fires
StartupFire ==
    /\ startupTimer
    /\ startupTimer' = FALSE
    /\ RunScrapingTask("startup")
    /\ UNCHANGED <<scrapingTask, response>>

\* triggerManualRun()
triggerManualRun ==
    /\ RunScrapingTask("manual")
    /\ UNCHANGED <<scrapingTask, startupTimer, response>>

\* What becomes of the process when the promise of runScrapingTask rejects:
\* the startup timer drops the promise (unhandledRejection -> gracefulShutdown
\* -> process.exit); the controller of a manual run catches it; what the cron
\* library does with it is not in the source.
AfterRejection(src) ==
    IF src = "startup" THEN {FALSE}
    ELSE IF src = "cron" THEN {TRUE, FALSE}
    ELSE {TRUE}

\* a terminal block that leaves the flag as it is
FinallyBlock_KeepsFlag(s, tr) ==
    /\ isRunning' = isRunning
    /\ nextRun' = calculateNextRun
    /\ cyc' = [cyc EXCEPT ![s] = IdleCyc]
    /\ trace' = [trace EXCEPT ![s] = Append(tr, Ev("finally"))]
    /\ Deliver(NewBroadcasts(trace[s], tr))

\* The finally block: clear the flag, recompute nextRun; the call is over.
FinallyBlock(s, tr) ==
    /\ isRunning' = FALSE
    /\ nextRun' = calculateNextRun
    /\ cyc' = [cyc EXCEPT ![s] = IdleCyc]
    /\ trace' = [trace EXCEPT ![s] = Append(tr, Ev("finally"))]
    /\ Deliver(NewBroadcasts(trace[s], tr))

\* the call goes on to its next await
Continue(s, c, tr) ==
    /\ cyc' = [cyc EXCEPT ![s] = c]
    /\ trace' = [trace EXCEPT ![s] = tr]
    /\ Deliver(NewBroadcasts(trace[s], tr))
    /\ UNCHANGED <<isRunning, nextRun, processUp>>

\* the call returns normally (through finally)
ReturnOk(s, tr) ==
    /\ FinallyBlock(s, tr)
    /\ UNCHANGED processUp

\* The catch block up to its await: ERROR status, then saveStockData([], failure)
CatchBlock(s, tr, msg) ==
    Continue(s,
        [cyc[s] EXCEPT !.pc = "save_begin", !.inCatch = TRUE, !.idx = 0,
                       !.saveStocks = <<>>,
                       !.saveResult = [success |-> FALSE, data |-> <<>>,
                                       timestamp |-> now, error |-> msg,
                                       totalStocks |-> 0]],
        Append(tr, StatusMsg("ERROR", NoDate)))

\* An awaited call of the cycle throws: into the catch block from the try
\* block, and out of the function (through finally) from the catch block.
Throw(s, tr, msg) ==
    IF cyc[s].inCatch
    THEN /\ FinallyBlock(s, tr)
         /\ processUp' \in AfterRejection(cyc[s].src)
    ELSE CatchBlock(s, tr, msg)

\* a database statement may fail (disk, lock, constraint), MaxFaults times
MayFail == faults < limit.faults
Outcomes == IF MayFail THEN BOOLEAN ELSE {TRUE}

\* what no step of a cycle in flight touches
CycleFrame ==
    /\ UNCHANGED <<lastRun, scrapingTask, startupTimer, lastCall, lastBroadcastData,
                   hasEverBroadcast, limit, response>>
    /\ HubRest

\* scrapeStockData resolves with success = true: the batch and the result carry
\* the time of the fetch (network I/O takes time)
FetchOk(s, batch) ==
    /\ processUp /\ cyc[s].pc = "fetch"
    /\ now < limit.time
    /\ now' = now + 1
    /\ LET data   == [i \in 1..Len(batch) |-> [batch[i] EXCEPT !.timestamp = now']]
           result == [success |-> TRUE, data |-> data, timestamp |-> now',
                      error |-> Null, totalStocks |-> Len(data)]
       IN Continue(s, [cyc[s] EXCEPT !.pc = "analyze", !.result = result, !.idx = 1],
                   Append(trace[s], [Ev("fetch_ok") EXCEPT !.stocks = data]))
    /\ UNCHANGED <<db, txn, faults, prunes>>
    /\ CycleFrame

\* a failure branch without its return: the cycle goes on to alert evaluation
FetchFailed_Continues(s) ==
    /\ processUp /\ cyc[s].pc = "fetch"
    /\ Continue(s, [cyc[s] EXCEPT !.pc = "alerts"],
                trace[s] \o << Ev("fetch_failed"), StatusMsg("ERROR", NoDate) >>)
    /\ UNCHANGED <<db, txn, now, faults, prunes>>
    /\ CycleFrame

\* scrapeStockData resolves with success = false: ERROR status, return
FetchFailed(s) ==
    /\ processUp /\ cyc[s].pc = "fetch"
    /\ ReturnOk(s, trace[s] \o << Ev("fetch_failed"), StatusMsg("ERROR", NoDate) >>)
    /\ UNCHANGED <<db, txn, now, faults, prunes>>
    /\ CycleFrame

\* a saveStockData that is not awaited: the cycle goes straight to the alerts
CallSave_NotAwaited(c, stocks, result) ==
    [c EXCEPT !.pc = "alerts", !.idx = 0, !.saveStocks = stocks,
              !.saveResult = result]

\* runScrapingTask calls saveStockData(stocks, result), which runs to its first
\* await (BEGIN TRANSACTION)
CallSave(c, stocks, result) ==
    [c EXCEPT !.pc = "save_begin", !.idx = 0, !.saveStocks = stocks,
              !.saveResult = result]

\* an analysis that, after the last stock of the batch, reports the symbols
\* of the latest earlier snapshots that the batch no longer has as REMOVED
AnalyzeStep_ReportsRemoved(s) ==
    /\ processUp /\ cyc[s].pc = "analyze"
    /\ LET c    == cyc[s]
           cur  == c.result.data[c.idx]
           one  == AnalyzeOne(db, c.stockUpdates, cur)
           gone == {r \in db.stocks :
                      /\ r.timestamp < c.result.timestamp
                      /\ \A q \in db.stocks :
                            q.timestamp < c.result.timestamp => q.timestamp <= r.timestamp
                      /\ \A k \in DOMAIN c.result.data :
                            c.result.data[k].symbol # r.symbol}
           old  == IF gone = {} \/ c.idx < Len(c.result.data) THEN <<>>
                   ELSE LET prev == mapDatabaseStockToStockData(CHOOSE r \in gone : TRUE)
                        IN << [id |-> 0, stockId |-> 0, previousData |-> prev,
                               currentData |-> prev, changeType |-> "REMOVED",
                               changeAmount |-> None, changePercent |-> None,
                               timestamp |-> c.result.timestamp] >>
           out  == << one[1], one[2] \o old >>
           c2   == [c EXCEPT !.stockUpdates = out[2], !.idx = c.idx + 1]
           tr   == IF out[1] = db THEN trace[s]
                   ELSE Append(trace[s],
                               [Ev("update_inserted") EXCEPT
                                   !.updates = << one[2][Len(one[2])] >>])
       IN /\ db' = out[1]
          /\ IF c.idx < Len(c.result.data)
             THEN Continue(s, c2, tr)
             ELSE Continue(s, CallSave(c2, c.result.data,
                                       [c.result EXCEPT !.totalStocks = Len(c.result.data)]),
                           tr)
    /\ UNCHANGED <<txn, now, faults, prunes>>
    /\ CycleFrame

\* analyzeStockChanges, one stock of the loop: the SELECT of the previous row
\* and the INSERT of the update record; after the last stock, saveStockData
AnalyzeStep(s) ==
    /\ processUp /\ cyc[s].pc = "analyze"
    /\ LET c    == cyc[s]
           cur  == c.result.data[c.idx]
           out  == AnalyzeOne(db, c.stockUpdates, cur)
           c2   == [c EXCEPT !.stockUpdates = out[2], !.idx = c.idx + 1]
           tr   == IF out[1] = db THEN trace[s]
                   ELSE Append(trace[s],
                               [Ev("update_inserted") EXCEPT
                                   !.updates = << out[2][Len(out[2])] >>])
       IN /\ db' = out[1]
          /\ IF c.idx < Len(c.result.data)
             THEN Continue(s, c2, tr)
             ELSE Continue(s, CallSave(c2, c.result.data,
                                       [c.result EXCEPT !.totalStocks = Len(c.result.data)]),
                           tr)
    /\ UNCHANGED <<txn, now, faults, prunes>>
    /\ CycleFrame

\* a statement of analyzeStockChanges fails: the error reaches the catch block
AnalyzeFail(s) ==
    /\ processUp /\ cyc[s].pc = "analyze"
    /\ MayFail
    /\ faults' = faults + 1
    /\ Throw(s, Append(trace[s], Ev("analyze_failed")), "analyze failed")
    /\ UNCHANGED <<db, txn, now, prunes>>
    /\ CycleFrame

\* saveStockData: BEGIN TRANSACTION (refused inside an open transaction)
SaveBegin(s) ==
    /\ processUp /\ cyc[s].pc = "save_begin"
    /\ \E ok \in (IF txn = NoTxn THEN Outcomes ELSE {FALSE}) :
          /\ faults' = IF ok \/ txn # NoTxn THEN faults ELSE faults + 1
          /\ IF ok
             THEN /\ txn' = << db >>
                  /\ Continue(s, [cyc[s] EXCEPT !.pc = "save_log"],
                              Append(trace[s], Ev("txn_begin")))
             ELSE /\ txn' = txn
                  /\ Continue(s, [cyc[s] EXCEPT !.pc = "save_rollback"], trace[s])
    /\ UNCHANGED <<db, now, prunes>>
    /\ CycleFrame

\* saveStockData: INSERT INTO scraping_logs, then the first row or COMMIT
SaveLog(s) ==
    /\ processUp /\ cyc[s].pc = "save_log"
    /\ \E ok \in Outcomes :
          /\ faults' = IF ok THEN faults ELSE faults + 1
          /\ IF ok
             THEN /\ db' = InsertLog(db, cyc[s].saveResult)
                  /\ Continue(s,
                        IF cyc[s].saveResult.success /\ Len(cyc[s].saveStocks) > 0
                        THEN [cyc[s] EXCEPT !.pc = "save_rows", !.idx = 1]
                        ELSE [cyc[s] EXCEPT !.pc = "save_commit"],
                        Append(trace[s], Ev("log_inserted")))
             ELSE /\ db' = db
                  /\ Continue(s, [cyc[s] EXCEPT !.pc = "save_rollback"], trace[s])
    /\ UNCHANGED <<txn, now, prunes>>
    /\ CycleFrame

\* saveStockData: INSERT OR REPLACE INTO stocks, one row of the loop
SaveRow(s) ==
    /\ processUp /\ cyc[s].pc = "save_rows"
    /\ \E ok \in Outcomes :
          /\ faults' = IF ok THEN faults ELSE faults + 1
          /\ IF ok
             THEN /\ db' = InsertStock(db, cyc[s].saveStocks[cyc[s].idx],
                                       cyc[s].saveResult.timestamp)
                  /\ Continue(s,
                        IF cyc[s].idx < Len(cyc[s].saveStocks)
                        THEN [cyc[s] EXCEPT !.idx = @ + 1]
                        ELSE [cyc[s] EXCEPT !.pc = "save_commit"],
                        Append(trace[s], Ev("row_inserted")))
             ELSE /\ db' = db
                  /\ Continue(s, [cyc[s] EXCEPT !.pc = "save_rollback"], trace[s])
    /\ UNCHANGED <<txn, now, prunes>>
    /\ CycleFrame

\* saveStockData returns: the try block goes on to checkForAlerts, the catch
\* block is over
AfterSave(s, tr) ==
    IF cyc[s].inCatch
    THEN ReturnOk(s, tr)
    ELSE Continue(s, [cyc[s] EXCEPT !.pc = "alerts"], tr)

\* saveStockData: COMMIT
SaveCommit(s) ==
    /\ processUp /\ cyc[s].pc = "save_commit"
    /\ \E ok \in (IF txn = NoTxn THEN {FALSE} ELSE Outcomes) :
          /\ faults' = IF ok \/ txn = NoTxn THEN faults ELSE faults + 1
          /\ IF ok
             THEN /\ txn' = NoTxn
                  /\ AfterSave(s, Append(trace[s], Ev("commit")))
             ELSE /\ txn' = txn
                  /\ Continue(s, [cyc[s] EXCEPT !.pc = "save_rollback"], trace[s])
    /\ UNCHANGED <<db, now, prunes>>
    /\ CycleFrame

\* a saveStockData whose catch block rolls back and swallows the error
SaveRollback_Swallows(s) ==
    /\ processUp /\ cyc[s].pc = "save_rollback"
    /\ IF txn # NoTxn
       THEN /\ db' = txn[1]
            /\ txn' = NoTxn
            /\ AfterSave(s, trace[s] \o << Ev("rollback"), Ev("save_failed") >>)
       ELSE /\ UNCHANGED <<db, txn>>
            /\ AfterSave(s, Append(trace[s], Ev("save_failed")))
    /\ UNCHANGED <<now, faults, prunes>>
    /\ CycleFrame

\* saveStockData, catch: ROLLBACK, then rethrow. ROLLBACK restores the
\* database as it was at BEGIN; without an open transaction it fails, and
\* saveStockData throws that error instead.
SaveRollback(s) ==
    /\ processUp /\ cyc[s].pc = "save_rollback"
    /\ IF txn # NoTxn
       THEN /\ db' = txn[1]
            /\ txn' = NoTxn
            /\ Throw(s, trace[s] \o << Ev("rollback"), Ev("save_failed") >>,
                     "save failed")
       ELSE /\ UNCHANGED <<db, txn>>
            /\ Throw(s, Append(trace[s], Ev("save_failed")), "no transaction")
    /\ UNCHANGED <<now, faults, prunes>>
    /\ CycleFrame

\* checkForAlerts resolves: the active rules are read, the alerts computed
AlertsDone(s) ==
    /\ processUp /\ cyc[s].pc = "alerts"
    /\ Continue(s,
          [cyc[s] EXCEPT !.pc = "broadcast",
                         !.alerts = checkForAlerts(cyc[s].result.data,
                                                   cyc[s].stockUpdates,
                                                   getActiveAlertRules(db))],
          Append(trace[s], Ev("alerts_evaluated")))
    /\ UNCHANGED <<db, txn, now, faults, prunes>>
    /\ CycleFrame

\* checkForAlerts rejects (the SELECT of the rules fails)
AlertsFail(s) ==
    /\ processUp /\ cyc[s].pc = "alerts"
    /\ MayFail
    /\ faults' = faults + 1
    /\ Throw(s, Append(trace[s], Ev("alerts_failed")), "alerts failed")
    /\ UNCHANGED <<db, txn, now, prunes>>
    /\ CycleFrame

\* sendScrapingStatus('SUCCESS', `Processed ${n} stocks - ${m} alerts generated`,
\* this.nextRun)
SuccessMsg(c) ==
    [StatusMsg("SUCCESS", nextRun) EXCEPT
        !.text = << "Processed", Len(c.result.data), "stocks",
                    Len(c.alerts), "alerts generated" >>]

\* broadcasts that skip STOCKS_UPDATE when the cycle classified no change
SuccessBroadcasts_OnlyOnChange(c) ==
    (IF c.stockUpdates = <<>> THEN <<>>
     ELSE << StocksUpdateMsg(c.result.data, c.stockUpdates) >>)
    \o AlertMsgs(c.alerts)
    \o << SuccessMsg(c) >>

\* broadcasts that report the success before the data and the alerts
SuccessBroadcasts_StatusFirst(c) ==
    << SuccessMsg(c) >>
    \o << StocksUpdateMsg(c.result.data, c.stockUpdates) >>
    \o AlertMsgs(c.alerts)

\* what runScrapingTask broadcasts after checkForAlerts: the update, each
\* alert, the SUCCESS status
SuccessBroadcasts(c) ==
    << StocksUpdateMsg(c.result.data, c.stockUpdates) >>
    \o AlertMsgs(c.alerts)
    \o << SuccessMsg(c) >>

\* runScrapingTask after checkForAlerts: the broadcasts, then the prune check;
\* cleanOldData, when it is called, runs to its first DELETE
BroadcastStep(s) ==
    /\ processUp /\ cyc[s].pc = "broadcast"
    /\ LET tr == trace[s] \o SuccessBroadcasts(cyc[s])
       IN IF shouldCleanOldData
          THEN /\ prunes' = Append(prunes, now)
               /\ Continue(s, [cyc[s] EXCEPT !.pc = "clean"], tr)
          ELSE /\ prunes' = prunes
               /\ ReturnOk(s, tr)
    /\ UNCHANGED <<db, txn, now, faults>>
    /\ CycleFrame

\* cleanOldData(30): three DELETEs; failedAt = 0 when all succeed, else the
\* DELETE that fails
CleanStep(s) ==
    /\ processUp /\ cyc[s].pc = "clean"
    /\ \E failedAt \in (IF MayFail THEN 0..3 ELSE {0}) :
          LET cutoff == now - RetentionUnits
              d1 == IF failedAt = 1 THEN db ELSE DeleteStocksBefore(db, cutoff)
              d2 == IF failedAt \in {1, 2} THEN d1 ELSE DeleteUpdatesBefore(d1, cutoff)
              d3 == IF failedAt \in {1, 2, 3} THEN d2 ELSE DeleteLogsBefore(d2, cutoff)
          IN /\ db' = d3
             /\ faults' = IF failedAt = 0 THEN faults ELSE faults + 1
             /\ IF failedAt = 0
                THEN ReturnOk(s, Append(trace[s], Ev("prune")))
                ELSE Throw(s, Append(trace[s], Ev("prune_failed")), "prune failed")
    /\ UNCHANGED <<txn, now, prunes>>
    /\ CycleFrame

\* updateLastBroadcastData(stocks): no code of the server calls it
updateLastBroadcastData(stocks) ==
    /\ processUp
    /\ lastBroadcastData' = stocks
    /\ hasEverBroadcast' = TRUE
    /\ UNCHANGED <<isRunning, lastRun, nextRun, scrapingTask, startupTimer, cyc,
                   trace, db, txn, now, lastCall, processUp, faults, prunes, limit, response>>
    /\ HubQuiet

\* forceNextBroadcast(): no code of the server calls it
forceNextBroadcast ==
    /\ processUp
    /\ lastBroadcastData' = <<>>
    /\ hasEverBroadcast' = FALSE
    /\ UNCHANGED <<isRunning, lastRun, nextRun, scrapingTask, startupTimer, cyc,
                   trace, db, txn, now, lastCall, processUp, faults, prunes, limit, response>>
    /\ HubQuiet

\* one step of the call in slot s
CycleStep(s) ==
    \/ \E batch \in Batches : FetchOk(s, batch)
    \/ FetchFailed(s)
    \/ AnalyzeStep(s)
    \/ AnalyzeFail(s)
    \/ SaveBegin(s)
    \/ SaveLog(s)
    \/ SaveRow(s)
    \/ SaveCommit(s)
    \/ SaveRollback(s)
    \/ AlertsDone(s)
    \/ AlertsFail(s)
    \/ BroadcastStep(s)
    \/ CleanStep(s)

Next ==
    \/ Start
    \/ Stop
    \/ Tick
    \/ CronFire
    \/ StartupFire
    \/ triggerManualRun
    \/ \E s \in Slots : CycleStep(s)

Spec == Init /\ [][Next]_vars

\* the event loop runs every continuation that is ready
LiveSpec == Spec /\ \A s \in Slots : WF_vars(CycleStep(s))

----------------------------------------------------------------------------
\* Two cycles in a row on drawn inputs: the classifier and the alert engine
\* are applied to every pair of an earlier and a current snapshot below.

\* what the first scrape can yield: one stock
FirstBatches ==
    { << Stock("AAPL", "Apple", 5, 100, 500000, "3T", 2) >>,
      << Stock("AAPL", "Apple", 5, 100, 500000, "3T", 12) >>,
      << Stock("AAPL", "Apple", 25, 100, 500000, "3T", 2) >>,
      << Stock("MSFT", "Microsoft", 5, 100, 500000, "3T", 2) >> }

\* the values the fields of the AAPL row of the second scrape are drawn from
Prices == {90, 100, 115, 116}
Ranks == {2, 4, 12}
Percents == {5, 20, 25}
Volumes == {500000, 1000000, 2000000}
NamesAndCaps == { <<"Apple", "3T">>, <<"Apple Inc", "3T">>, <<"Apple", "2T">> }

\* the row the second scrape may show next to AAPL
Companion == Stock("TSLA", "Tesla", 10, 200, 900000, "1T", 3)

\* what the second scrape can yield: AAPL alone or with TSLA, sorted by rank
SecondBatches ==
    LET aapl == { Stock("AAPL", nc[1], pct, price, vol, nc[2], rank) :
                     nc \in NamesAndCaps, pct \in Percents, price \in Prices,
                     vol \in Volumes, rank \in Ranks }
    IN { << a >> : a \in aapl } \cup { SortByRank(<< a, Companion >>) : a \in aapl }

\* a row of alert_rules
Rule(id, symbol, min, max, vol, enabled) ==
    [id |-> id, symbol |-> symbol, min_percent_change |-> min,
     max_percent_change |-> max, min_volume |-> vol, enabled |-> enabled]

\* the alert_rules tables the two cycles are run on
RuleTables ==
    { InitialRules,
      << Rule(1, Null, None, Some(5), None, 1),
         Rule(2, "AAPL", None, None, Some(1000000), 1) >>,
      << Rule(1, "TSLA", Some(20), None, None, 1),
         Rule(2, Null, Some(20), None, None, 0) >>,
      << Rule(1, Null, Some(20), Some(5), Some(1000000), 1),
         Rule(2, "AAPL", Some(25), None, None, 1) >>,
      << Rule(1, Null, None, None, Some(0), 1) >> }

\* what the source shows at the time of the fetch
ScrapedNow == IF now = 0 THEN FirstBatches ELSE SecondBatches

\* the server on a database file that holds a rule table and no data; no
\* statement fails
EngineInit ==
    /\ InitServices
    /\ \E rules \in RuleTables :
          db = [EmptyDb EXCEPT !.alert_rules = rules, !.seq_rules = Len(rules)]
    /\ limit = Run(MaxTime, 0)

\* scrapeStockData resolves with one of the batches the source shows
Scrape(s) ==
    /\ cyc[s].pc = "fetch"
    /\ \E batch \in ScrapedNow : FetchOk(s, batch)

\* one step of the call in slot s, when the source and the database work
EngineStep(s) ==
    \/ Scrape(s)
    \/ AnalyzeStep(s)
    \/ SaveBegin(s)
    \/ SaveLog(s)
    \/ SaveRow(s)
    \/ SaveCommit(s)
    \/ AlertsDone(s)
    \/ BroadcastStep(s)

EngineNext ==
    \/ triggerManualRun
    \/ \E s \in Slots : EngineStep(s)

EngineSpec == EngineInit /\ [][EngineNext]_vars

\* the server on a fresh database file, observed long enough for two prunes
PruneInit ==
    /\ InitServices
    /\ db = EmptyDb
    /\ limit = Run(MaxPruneTime, MaxPruneFaults)

PruneSpec == PruneInit /\ [][Next]_vars

----------------------------------------------------------------------------
\* The HTTP controllers: the manual trigger and the alert rules

\* what is left alone by a handler that touches neither the orchestrator nor
\* the hub
ApiFrame ==
    /\ UNCHANGED <<isRunning, lastRun, nextRun, scrapingTask, startupTimer, cyc,
                   trace, txn, now, lastCall, lastBroadcastData, hasEverBroadcast,
                   processUp, prunes, limit>>
    /\ HubQuiet

Respond(status, body) == response' = [status |-> status, body |-> body]

\* a trigger handler that does not look at the status first
triggerManualScraping_NoCheck ==
    /\ RunScrapingTask("manual")
    /\ Respond(200, "triggered")
    /\ UNCHANGED <<scrapingTask, startupTimer>>

\* StocksController.triggerManualScraping: 409 when getStatus().isRunning,
\* else triggerManualRun() up to its first await (not awaited) and 'triggered'
triggerManualScraping ==
    IF isRunning
    THEN /\ processUp
         /\ Respond(409, "Scraping task is already running")
         /\ UNCHANGED <<db, faults>>
         /\ ApiFrame
    ELSE /\ RunScrapingTask("manual")
         /\ Respond(200, "triggered")
         /\ UNCHANGED <<scrapingTask, startupTimer>>

\* a request body of POST /alerts/rules: the fields a client may leave out
\* are None when left out
RuleBody(symbol, min, max, vol, enabled) ==
    [symbol |-> symbol, minPercentChange |-> min, maxPercentChange |-> max,
     minVolume |-> vol, enabled |-> enabled]

\* AlertsController.createAlertRule, the validation: 400 when no condition is
\* given (a 0 counts as not given) or a threshold is out of range
CreateRejected(body) ==
    \/ /\ body.symbol = Null
       /\ ~Truthy(body.minPercentChange)
       /\ ~Truthy(body.maxPercentChange)
       /\ ~Truthy(body.minVolume)
    \/ /\ body.minPercentChange # None
       /\ body.minPercentChange[1] < 0 \/ body.minPercentChange[1] > 1000
    \/ /\ body.maxPercentChange # None
       /\ body.maxPercentChange[1] < 0 \/ body.maxPercentChange[1] > 1000
    \/ /\ body.minVolume # None
       /\ body.minVolume[1] < 0

\* AlertsController.updateAlertRule, the validation
UpdateRejected(body) ==
    \/ /\ body.minPercentChange # None
       /\ body.minPercentChange[1] < 0 \/ body.minPercentChange[1] > 1000
    \/ /\ body.maxPercentChange # None
       /\ body.maxPercentChange[1] < 0 \/ body.maxPercentChange[1] > 1000
    \/ /\ body.minVolume # None
       /\ body.minVolume[1] < 0

\* AlertService.createAlertRule: INSERT INTO alert_rules, x || null for the
\* symbol and the thresholds
InsertRule(d, rule) ==
    [d EXCEPT !.seq_rules = @ + 1,
              !.alert_rules =
                  Append(@, Rule(d.seq_rules + 1, rule.symbol,
                                 OrNull(rule.minPercentChange),
                                 OrNull(rule.maxPercentChange),
                                 OrNull(rule.minVolume),
                                 IF rule.enabled THEN 1 ELSE 0))]

\* AlertService.updateAlertRule: UPDATE alert_rules SET the fields given
\* WHERE id = ?; the values are stored as given
UpdateRule(d, id, updates) ==
    IF /\ updates.symbol = None /\ updates.minPercentChange = None
       /\ updates.maxPercentChange = None /\ updates.minVolume = None
       /\ updates.enabled = None
    THEN d
    ELSE [d EXCEPT !.alert_rules =
            [n \in DOMAIN @ |->
               IF @[n].id # id THEN @[n]
               ELSE [id |-> id,
                     symbol |-> IF updates.symbol = None THEN @[n].symbol
                                ELSE updates.symbol[1],
                     min_percent_change |->
                         IF updates.minPercentChange = None
                         THEN @[n].min_percent_change ELSE updates.minPercentChange,
                     max_percent_change |->
                         IF updates.maxPercentChange = None
                         THEN @[n].max_percent_change ELSE updates.maxPercentChange,
                     min_volume |->
                         IF updates.minVolume = None
                         THEN @[n].min_volume ELSE updates.minVolume,
                     enabled |-> IF updates.enabled = None THEN @[n].enabled
                                 ELSE IF updates.enabled[1] THEN 1 ELSE 0]]]

\* AlertService.deleteAlertRule: DELETE FROM alert_rules WHERE id = ?
DeleteRule(d, id) ==
    [d EXCEPT !.alert_rules = SelectSeq(@, LAMBDA r : r.id # id)]

\* a statement of a rule handler on the shared connection: it runs, inside
\* whatever transaction is open, or it fails and the handler answers 500
RuleWrite(d, status, body) ==
    /\ processUp
    /\ \E ok \in Outcomes :
          /\ faults' = IF ok THEN faults ELSE faults + 1
          /\ db' = IF ok THEN d ELSE db
          /\ IF ok THEN Respond(status, body) ELSE Respond(500, "failed")
    /\ ApiFrame

\* AlertsController.createAlertRule
createAlertRule(body) ==
    IF CreateRejected(body)
    THEN /\ processUp
         /\ Respond(400, "rejected")
         /\ UNCHANGED <<db, faults>>
         /\ ApiFrame
    ELSE RuleWrite(InsertRule(db, body), 201, "created")

\* AlertsController.updateAlertRule
updateAlertRule(id, body) ==
    IF UpdateRejected(body)
    THEN /\ processUp
         /\ Respond(400, "rejected")
         /\ UNCHANGED <<db, faults>>
         /\ ApiFrame
    ELSE RuleWrite(UpdateRule(db, id, body), 200, "updated")

\* AlertsController.deleteAlertRule
deleteAlertRule(id) == RuleWrite(DeleteRule(db, id), 200, "deleted")

\* the bodies of POST /alerts/rules that clients send: a symbol filter alone,
\* thresholds that are all 0 with and without a symbol, one real threshold
CreateBodies ==
    { RuleBody("AAPL", None, None, None, TRUE),
      RuleBody("AAPL", Some(0), Some(0), Some(0), TRUE),
      RuleBody(Null, Some(0), Some(0), Some(0), TRUE),
      RuleBody(Null, Some(5), None, None, TRUE) }

\* the body of PUT /alerts/rules/:id that sets minPercentChange to 0: a field
\* left out is None, a field given is Some(value)
UpdateBodies == { RuleBody(None, Some(0), None, None, None) }

\* the server on a fresh database file, with its HTTP clients; the clock stops
\* at MaxApiTime, at most MaxApiFaults statements fail, at most MaxRules rule
\* rows are ever created
ApiInit ==
    /\ InitServices
    /\ db = EmptyDb
    /\ limit = Run(MaxApiTime, MaxApiFaults)

\* scrapeStockData resolves with one of the two batches
ScrapeBatch(s) ==
    /\ cyc[s].pc = "fetch"
    /\ \E batch \in Batches : FetchOk(s, batch)

\* one step of the call in slot s; the classifier, the rule query and the
\* prune are left to Spec
ApiStep(s) ==
    \/ ScrapeBatch(s)
    \/ FetchFailed(s)
    \/ AnalyzeStep(s)
    \/ SaveBegin(s)
    \/ SaveLog(s)
    \/ SaveRow(s)
    \/ SaveCommit(s)
    \/ SaveRollback(s)
    \/ AlertsDone(s)
    \/ BroadcastStep(s)

CreateRequest ==
    /\ db.seq_rules < MaxRules
    /\ \E body \in CreateBodies : createAlertRule(body)

UpdateRequest ==
    \E id \in 1..MaxRules : \E body \in UpdateBodies : updateAlertRule(id, body)

DeleteRequest == \E id \in 1..MaxRules : deleteAlertRule(id)

\* the manual trigger next to the timers
TriggerNext ==
    \/ Start
    \/ CronFire
    \/ StartupFire
    \/ triggerManualScraping
    \/ \E s \in Slots : ApiStep(s)

TriggerSpec == ApiInit /\ [][TriggerNext]_vars

\* the rule handlers next to manually triggered cycles
RulesNext ==
    \/ triggerManualScraping
    \/ CreateRequest
    \/ UpdateRequest
    \/ DeleteRequest
    \/ \E s \in Slots : ApiStep(s)

RulesSpec == ApiInit /\ [][RulesNext]_vars

----------------------------------------------------------------------------
\* Three cycles in a row: which snapshot a stock is classified against

\* what the source may show at a fetch: a symbol comes, goes and comes back
HistoryBatches == {BatchA, BatchB, BatchC}

\* the server on a fresh database file, observed for three fetches
HistoryInit ==
    /\ InitServices
    /\ db = EmptyDb
    /\ limit = Run(MaxHistoryTime, MaxHistoryFaults)

\* scrapeStockData resolves with one of the three batches
ScrapeHistory(s) ==
    /\ cyc[s].pc = "fetch"
    /\ \E batch \in HistoryBatches : FetchOk(s, batch)

\* one step of the call in slot s
HistoryStep(s) ==
    \/ ScrapeHistory(s)
    \/ FetchFailed(s)
    \/ AnalyzeStep(s)
    \/ SaveBegin(s)
    \/ SaveLog(s)
    \/ SaveRow(s)
    \/ SaveCommit(s)
    \/ SaveRollback(s)
    \/ AlertsDone(s)
    \/ BroadcastStep(s)

HistoryNext ==
    \/ triggerManualRun
    \/ \E s \in Slots : HistoryStep(s)

HistorySpec == HistoryInit /\ [][HistoryNext]_vars

----------------------------------------------------------------------------
\* The last-broadcast cache on drawn batches

\* the batches the cache is tried on, prices and percentages in hundredths:
\* AAPL with values at, one step above and just above each threshold, alone or
\* followed by TSLA, and MSFT alone
SignificanceBatches ==
    LET aapl == { Stock("AAPL", name, pct, price, vol, "3T", rank) :
                     name \in {"Apple", "Apple Inc"}, pct \in {500, 501, 502},
                     price \in {10000, 10001, 10002},
                     vol \in {500000, 501000, 501001}, rank \in {1, 2} }
        tsla == Stock("TSLA", "Tesla", 1000, 20000, 900000, "1T", 3)
    IN { << a >> : a \in aapl } \cup { << a, tsla >> : a \in aapl }
       \cup { << Stock("MSFT", "Microsoft", 500, 10000, 500000, "3T", 1) >> }

\* a StockService as constructed: nothing in the cache
SignificanceInit ==
    /\ InitServices
    /\ db = EmptyDb
    /\ limit = Run(0, 0)

\* a caller records a batch as broadcast
RecordBroadcast ==
    \E stocks \in SignificanceBatches :
        /\ lastBroadcastData # stocks
        /\ updateLastBroadcastData(stocks)

\* a caller resets the cache
ResetBroadcast ==
    /\ hasEverBroadcast
    /\ forceNextBroadcast

SignificanceNext == RecordBroadcast \/ ResetBroadcast

SignificanceSpec == SignificanceInit /\ [][SignificanceNext]_vars

----------------------------------------------------------------------------
\* The distribution hub (WebSocketService), its handlers

\* the StockService the hub was constructed with: index.ts passes none
stockService == "undefined"

\* a message the hub sends to one client
HubMsg(type, text) == [Ev("unicast") EXCEPT !.type = type, !.text = text]

\* sendToClient(clientId, message) on the registry cl: nothing is sent to a
\* client that is not registered or not OPEN; a send that throws deletes it
sendToClient(cl, c, msg) ==
    IF c \notin cl \/ sock[c] \notin {"open", "broken"} THEN <<>>
    ELSE IF sock[c] = "broken"
         THEN << [kind |-> "unicast", msg |-> msg, before |-> cl,
                  to |-> {}, evicted |-> {c}] >>
         ELSE << [kind |-> "unicast", msg |-> msg, before |-> cl,
                  to |-> {c}, evicted |-> {}] >>

\* an error that is sent to every registered client
sendError_ToAll(cl, c, text) ==
    << [kind |-> "unicast", msg |-> HubMsg("ERROR", text), before |-> cl,
        to |-> {d \in cl : sock[d] = "open"}, evicted |-> {}] >>

\* sendError(clientId, errorMessage)
sendError(cl, c, text) == sendToClient(cl, c, HubMsg("ERROR", text))

\* sendCurrentDataToClient(clientId): this.stockService is undefined, so the
\* call of getLatestStocks throws inside the try block and the catch block
\* answers with an ERROR
sendCurrentDataToClient(cl, c) ==
    sendError(cl, c, << "Failed to fetch current data" >>)

\* the hub has made the sends recs on the registry cl
Unicast(cl, recs) ==
    /\ clients' = RegistryAfter(cl, recs)
    /\ sent' = recs

\* what no handler of the hub touches
HubFrame ==
    UNCHANGED <<isRunning, lastRun, nextRun, startupTimer, cyc, trace, db, txn, now,
                lastCall, lastBroadcastData, hasEverBroadcast, faults, prunes, limit, response>>

\* the payloads a client may send
Payloads == {"PING", "REQUEST_LATEST_DATA", "SUBSCRIBE", "{}", "null", "not json"}

\* JSON.parse(data.toString()): it throws on "not json", yields null on "null",
\* an object without a type on "{}", and else an object of that type
JSONparse(p) ==
    [ok |-> p # "not json", isNull |-> p = "null",
     type |-> IF p \in {"not json", "null", "{}"} THEN "undefined" ELSE p]

\* wss.on('connection'): a fresh id, the registry entry, the CONNECTION
\* acknowledgment, the catch-up timer
Connect ==
    /\ processUp /\ wss = "open"
    /\ \E c \in ClientIds :
          /\ sock[c] = "none"
          /\ \A d \in ClientIds : sock[d] = "none" => c <= d
          /\ sock' = [sock EXCEPT ![c] = "open"]
          /\ isAlive' = [isAlive EXCEPT ![c] = TRUE]
          /\ catchUp' = [catchUp EXCEPT ![c] = TRUE]
          /\ LET cl == clients \cup {c}
             IN /\ clients' = cl
                /\ sent' = << [kind |-> "unicast",
                               msg |-> HubMsg("CONNECTION", << "Connected successfully" >>),
                               before |-> cl, to |-> {c}, evicted |-> {}] >>
    /\ UNCHANGED <<missed, heartbeatInterval, wss, shutdown, scrapingTask, processUp>>
    /\ HubFrame

\* the setTimeout of the connection fires: sendCurrentDataToClient(clientId)
CatchUpFire(c) ==
    /\ processUp /\ catchUp[c]
    /\ catchUp' = [catchUp EXCEPT ![c] = FALSE]
    /\ Unicast(clients, sendCurrentDataToClient(clients, c))
    /\ UNCHANGED <<isAlive, sock, missed, heartbeatInterval, wss, shutdown,
                   scrapingTask, processUp>>
    /\ HubFrame

\* ws.on('message') and handleClientMessage. handleClientMessage is async and
\* not awaited: reading message.type of null rejects its promise, which no
\* one handles (unhandledRejection).
ClientMessage(c, p) ==
    /\ processUp /\ sock[c] \in {"open", "broken"}
    /\ LET m == JSONparse(p)
       IN IF ~m.ok
          THEN /\ Unicast(clients, sendError(clients, c, << "Invalid message format" >>))
               /\ UNCHANGED shutdown
          ELSE IF m.isNull
          THEN /\ UNCHANGED clients
               /\ sent' = <<>>
               /\ shutdown' = IF shutdown = "none" THEN "rejected" ELSE shutdown
          ELSE /\ UNCHANGED shutdown
               /\ IF m.type = "PING"
                  THEN Unicast(clients,
                               sendToClient(clients, c, HubMsg("CONNECTION", << "pong" >>)))
                  ELSE IF m.type = "REQUEST_LATEST_DATA"
                  THEN Unicast(clients, sendCurrentDataToClient(clients, c))
                  ELSE Unicast(clients,
                               sendError(clients, c, << "Unknown message type: ", m.type >>))
    /\ UNCHANGED <<isAlive, sock, catchUp, missed, heartbeatInterval, wss,
                   scrapingTask, processUp>>
    /\ HubFrame

\* a pong handler that leaves the liveness flag alone
Pong_Ignored(c) ==
    /\ processUp /\ sock[c] \in {"open", "broken"}
    /\ c \in clients
    /\ missed' = [missed EXCEPT ![c] = 0]
    /\ sent' = <<>>
    /\ UNCHANGED <<clients, isAlive, sock, catchUp, heartbeatInterval, wss, shutdown,
                   scrapingTask, processUp>>
    /\ HubFrame

\* ws.on('pong')
Pong(c) ==
    /\ processUp /\ sock[c] \in {"open", "broken"}
    /\ c \in clients
    /\ isAlive' = [isAlive EXCEPT ![c] = TRUE]
    /\ missed' = [missed EXCEPT ![c] = 0]
    /\ sent' = <<>>
    /\ UNCHANGED <<clients, sock, catchUp, heartbeatInterval, wss, shutdown,
                   scrapingTask, processUp>>
    /\ HubFrame

\* a tick that pings without resetting the liveness flags
HeartbeatTick_NoReset ==
    /\ processUp /\ heartbeatInterval
    /\ LET dead == {c \in clients : ~isAlive[c]}
       IN /\ clients' = clients \ dead
          /\ sock' = [c \in ClientIds |->
                         IF c \in dead /\ sock[c] \in {"open", "broken"}
                         THEN "closing" ELSE sock[c]]
          /\ missed' = [c \in ClientIds |->
                           IF c \in clients THEN missed[c] + 1 ELSE missed[c]]
          /\ sent' = << [kind |-> "ping", msg |-> HubMsg("ping", <<>>),
                         before |-> clients, to |-> clients \ dead,
                         evicted |-> dead] >>
    /\ UNCHANGED <<isAlive, catchUp, heartbeatInterval, wss, shutdown, scrapingTask,
                   processUp>>
    /\ HubFrame

\* one tick of the heartbeat interval: a client whose flag is false is
\* terminated and deleted, every other one has its flag reset and is pinged
HeartbeatTick ==
    /\ processUp /\ heartbeatInterval
    /\ LET dead == {c \in clients : ~isAlive[c]}
       IN /\ clients' = clients \ dead
          /\ sock' = [c \in ClientIds |->
                         IF c \in dead /\ sock[c] \in {"open", "broken"}
                         THEN "closing" ELSE sock[c]]
          /\ isAlive' = [c \in ClientIds |-> IF c \in clients THEN FALSE ELSE isAlive[c]]
          /\ missed' = [c \in ClientIds |->
                           IF c \in clients THEN missed[c] + 1 ELSE missed[c]]
          /\ sent' = << [kind |-> "ping", msg |-> HubMsg("ping", <<>>),
                         before |-> clients, to |-> clients \ dead,
                         evicted |-> dead] >>
    /\ UNCHANGED <<catchUp, heartbeatInterval, wss, shutdown, scrapingTask, processUp>>
    /\ HubFrame

\* the connection of a client degrades: send() on its socket now throws
SocketBreaks(c) ==
    /\ processUp /\ sock[c] = "open"
    /\ sock' = [sock EXCEPT ![c] = "broken"]
    /\ sent' = <<>>
    /\ UNCHANGED <<clients, isAlive, catchUp, missed, heartbeatInterval, wss, shutdown,
                   scrapingTask, processUp>>
    /\ HubFrame

\* the peer closes: readyState leaves OPEN before the 'close' event is handled
PeerCloses(c) ==
    /\ processUp /\ sock[c] \in {"open", "broken"}
    /\ sock' = [sock EXCEPT ![c] = "closing"]
    /\ sent' = <<>>
    /\ UNCHANGED <<clients, isAlive, catchUp, missed, heartbeatInterval, wss, shutdown,
                   scrapingTask, processUp>>
    /\ HubFrame

\* a close handler that leaves the registry entry in place
CloseEvent_KeepsClient(c) ==
    /\ processUp /\ sock[c] = "closing"
    /\ sock' = [sock EXCEPT ![c] = "closed"]
    /\ sent' = <<>>
    /\ UNCHANGED <<clients, isAlive, catchUp, missed, heartbeatInterval, wss, shutdown,
                   scrapingTask, processUp>>
    /\ HubFrame

\* ws.on('close')
CloseEvent(c) ==
    /\ processUp /\ sock[c] = "closing"
    /\ sock' = [sock EXCEPT ![c] = "closed"]
    /\ clients' = clients \ {c}
    /\ sent' = <<>>
    /\ UNCHANGED <<isAlive, catchUp, missed, heartbeatInterval, wss, shutdown,
                   scrapingTask, processUp>>
    /\ HubFrame

\* ws.on('error')
ErrorEvent(c) ==
    /\ processUp /\ sock[c] = "broken"
    /\ sock' = [sock EXCEPT ![c] = "closing"]
    /\ clients' = clients \ {c}
    /\ sent' = <<>>
    /\ UNCHANGED <<isAlive, catchUp, missed, heartbeatInterval, wss, shutdown,
                   scrapingTask, processUp>>
    /\ HubFrame

\* sendScrapingStatus(status, message, nextRun), as the orchestrator calls it
sendScrapingStatus ==
    /\ processUp
    /\ \E status \in {"STARTED", "SUCCESS", "ERROR"} :
          Deliver(<< StatusMsg(status, nextRun) >>)
    /\ HubRest
    /\ UNCHANGED <<scrapingTask, processUp>>
    /\ HubFrame

\* broadcastStockUpdate(stocks, updates, scrapingResult)
broadcastStockUpdate ==
    /\ processUp
    /\ Deliver(<< StocksUpdateMsg(BatchA, <<>>) >>)
    /\ HubRest
    /\ UNCHANGED <<scrapingTask, processUp>>
    /\ HubFrame

\* broadcastAlert(stock, update, alertType, message)
broadcastAlert ==
    /\ processUp
    /\ Deliver(<< [Ev("broadcast") EXCEPT !.type = "ALERT", !.alertType = "NEW_STOCK",
                                          !.symbol = "AAPL"] >>)
    /\ HubRest
    /\ UNCHANGED <<scrapingTask, processUp>>
    /\ HubFrame

\* a close() that leaves the heartbeat interval running
close_KeepsHeartbeat ==
    /\ heartbeatInterval' = heartbeatInterval
    /\ sock' = [c \in ClientIds |->
                   IF c \in clients /\ sock[c] \in {"open", "broken"}
                   THEN "closing" ELSE sock[c]]
    /\ wss' = "closing"

\* WebSocketService.close() up to the return of its promise: the heartbeat is
\* cleared, every registered socket is closed, the listener starts to close
close ==
    /\ heartbeatInterval' = FALSE
    /\ sock' = [c \in ClientIds |->
                   IF c \in clients /\ sock[c] \in {"open", "broken"}
                   THEN "closing" ELSE sock[c]]
    /\ wss' = "closing"

\* gracefulShutdown(signal) up to its first await: cronService.stop(), then
\* webSocketService.close()
gracefulShutdown ==
    /\ scrapingTask' = IF scrapingTask = "running" THEN "stopped" ELSE scrapingTask
    /\ close
    /\ shutdown' = "closing"
    /\ sent' = <<>>
    /\ UNCHANGED <<clients, isAlive, catchUp, missed, processUp>>
    /\ HubFrame

\* SIGTERM / SIGINT / SIGUSR2 (one shutdown per run of the model)
Signal ==
    /\ processUp /\ shutdown = "none"
    /\ gracefulShutdown

\* process.on('unhandledRejection')
UnhandledRejection ==
    /\ processUp /\ shutdown = "rejected"
    /\ gracefulShutdown

\* the callback of wss.close(): the promise of close() resolves, and
\* gracefulShutdown goes on to server.close() and database.close()
ListenerClosed ==
    /\ processUp /\ shutdown = "closing" /\ wss = "closing"
    /\ wss' = "closed"
    /\ shutdown' = "dbclose"
    /\ sent' = <<>>
    /\ UNCHANGED <<clients, isAlive, sock, catchUp, missed, heartbeatInterval,
                   scrapingTask, processUp>>
    /\ HubFrame

\* database.close() resolves: process.exit(0)
DatabaseClosed ==
    /\ processUp /\ shutdown = "dbclose"
    /\ processUp' = FALSE
    /\ shutdown' = "exited"
    /\ sent' = <<>>
    /\ UNCHANGED <<clients, isAlive, sock, catchUp, missed, heartbeatInterval, wss,
                   scrapingTask>>
    /\ HubFrame

\* a database that holds the snapshot of an earlier cycle
StoreWithSnapshot == InsertStock(EmptyDb, BatchA[1], 0)

\* the hub on its own: the orchestrator appears through the three methods it
\* calls, the store is empty or holds a snapshot
HubInit ==
    /\ InitServices
    /\ db \in {EmptyDb, StoreWithSnapshot}
    /\ limit = Run(MaxTime, MaxFaults)

HubNext ==
    \/ Connect
    \/ \E c \in ClientIds : CatchUpFire(c)
    \/ \E c \in ClientIds : \E p \in Payloads : ClientMessage(c, p)
    \/ \E c \in ClientIds : Pong(c)
    \/ HeartbeatTick
    \/ \E c \in ClientIds : SocketBreaks(c)
    \/ \E c \in ClientIds : PeerCloses(c)
    \/ \E c \in ClientIds : CloseEvent(c)
    \/ \E c \in ClientIds : ErrorEvent(c)
    \/ sendScrapingStatus
    \/ broadcastStockUpdate
    \/ broadcastAlert
    \/ Signal
    \/ UnhandledRejection
    \/ ListenerClosed
    \/ DatabaseClosed

HubSpec == HubInit /\ [][HubNext]_vars

----------------------------------------------------------------------------
\* Reading a trace

Has(tr, name) == \E i \in DOMAIN tr : tr[i].ev = name
IsBroadcast(e, type) == e.ev = "broadcast" /\ e.type = type
IsStatus(e, status) == IsBroadcast(e, "SCRAPING_STATUS") /\ e.status = status
Broadcasts(tr, type) == {i \in DOMAIN tr : IsBroadcast(tr[i], type)}
Statuses(tr, status) == {i \in DOMAIN tr : IsStatus(tr[i], status)}
Events(tr, name) == {i \in DOMAIN tr : tr[i].ev = name}
Ended(tr) == tr # <<>> /\ tr[Len(tr)].ev = "finally"

\* the saveStockData of the batch (the one of the try block) has thrown
BatchSaveFailed(tr) ==
    \E i \in Events(tr, "save_failed") : \A j \in Statuses(tr, "ERROR") : i < j

\* the saveStockData of the catch block (the failure record) has thrown
FailureRecordFailed(tr) ==
    \E i \in Events(tr, "save_failed") : \E j \in Statuses(tr, "ERROR") : j < i

RECURSIVE UpdatesIn(_)
\* the update records a cycle has produced, in order
UpdatesIn(tr) ==
    IF tr = <<>> THEN <<>>
    ELSE (IF Head(tr).ev = "update_inserted" THEN Head(tr).updates ELSE <<>>)
         \o UpdatesIn(Tail(tr))

\* some call of runScrapingTask is made in this step
SomeCall == CronFire \/ StartupFire \/ triggerManualRun

----------------------------------------------------------------------------
\* C1. Single-flight: whatever the interleaving of cron firings, the startup
\* run and manual triggers, at most one call of runScrapingTask is past the
\* guard and before its finally block at any time.
C1_SingleFlight == Cardinality(ActiveSlots) <= 1

\* a cycle is in the middle of its transaction while both timers can still fire
C1_Witness ==
    /\ \E s \in Slots : cyc[s].pc = "save_rows" /\ cyc[s].src = "manual"
    /\ scrapingTask = "running" /\ startupTimer
    /\ lastCall = "dropped"

\* C2. A call of runScrapingTask (manual trigger or timer) that arrives while
\* a cycle is running is dropped: the step changes neither the flag, lastRun,
\* nextRun, any cycle's position, what has been broadcast, nor the store; and
\* a cycle only ever starts in the step of a call that found no cycle running
\* (a dropped call is not queued and run later).
C2_DroppedWhileRunning ==
    /\ [][(isRunning /\ SomeCall) =>
            /\ lastCall' = "dropped"
            /\ UNCHANGED <<isRunning, lastRun, nextRun, cyc, trace, db, txn>>]_vars
    /\ [][(\E s \in Slots : cyc[s].pc = "idle" /\ cyc'[s].pc # "idle") =>
            (~isRunning /\ SomeCall)]_vars

\* a call was dropped while a cycle was analysing its batch
C2_Witness ==
    /\ isRunning /\ lastCall = "dropped"
    /\ \E s \in Slots : cyc[s].pc = "analyze" /\ cyc[s].idx = 2
    /\ Cardinality(ActiveSlots) = 1

\* C3. Every cycle that starts ends, and on every path its last step is the
\* finally block: the flag is false and nextRun is recomputed from the time of
\* that step; the flag is never left set without a cycle in flight.
C3_TerminalBlock ==
    /\ [][\A s \in Slots :
            (cyc[s].pc # "idle" /\ cyc'[s].pc = "idle") =>
                /\ ~isRunning'
                /\ nextRun' = now' + IntervalUnits
                /\ Ended(trace'[s])]_vars
    /\ [](isRunning => ActiveSlots # {})
    /\ (isRunning ~> ~isRunning)

\* a cycle has ended whose failure record could not be written either
C3_Witness ==
    /\ \E s \in Slots : Ended(trace[s]) /\ FailureRecordFailed(trace[s])
    /\ ~isRunning /\ processUp
    /\ nextRun = now + IntervalUnits /\ now > lastRun

\* C4. When the fetch of a cycle fails, the cycle has written a failure record
\* (a scraping_logs row with success = 0) and broadcast SCRAPING_STATUS=ERROR
\* by the time it ends.
C4_FetchFailureRecorded ==
    \A s \in Slots :
        (Has(trace[s], "fetch_failed") /\ Ended(trace[s])) =>
            /\ Statuses(trace[s], "ERROR") # {}
            /\ \E i \in DOMAIN db.scraping_logs : db.scraping_logs[i].success = 0

\* C5. A cycle whose fetch failed writes no snapshot row, no update record and
\* no log row, evaluates no alerts and broadcasts no STOCKS_UPDATE and no ALERT.
C5_FetchFailureWritesNothing ==
    \A s \in Slots :
        Has(trace[s], "fetch_failed") =>
            /\ ~Has(trace[s], "row_inserted")
            /\ ~Has(trace[s], "update_inserted")
            /\ ~Has(trace[s], "txn_begin")
            /\ ~Has(trace[s], "alerts_evaluated")
            /\ Broadcasts(trace[s], "STOCKS_UPDATE") = {}
            /\ Broadcasts(trace[s], "ALERT") = {}

\* a cycle has ended on a failed fetch while the store holds an earlier batch
C5_Witness ==
    /\ \E s \in Slots : Has(trace[s], "fetch_failed") /\ Ended(trace[s])
    /\ db.stocks # {}

\* C6. Within a cycle, when alert evaluation starts every row of the batch is
\* in the store and its transaction is committed, no row is written after the
\* evaluation, and no STOCKS_UPDATE or ALERT is broadcast before the
\* evaluation has completed.
C6_StepOrder ==
    \A s \in Slots :
        /\ cyc[s].pc \in {"alerts", "broadcast"} =>
              /\ txn = NoTxn
              /\ \A i \in DOMAIN cyc[s].result.data :
                    \E r \in db.stocks :
                       /\ r.symbol = cyc[s].result.data[i].symbol
                       /\ r.timestamp = cyc[s].result.timestamp
        /\ \A j \in Events(trace[s], "alerts_evaluated") :
              /\ \E c \in Events(trace[s], "commit") : c < j
              /\ \A i \in Events(trace[s], "row_inserted") : i < j
        /\ \A k \in Broadcasts(trace[s], "STOCKS_UPDATE") \cup Broadcasts(trace[s], "ALERT") :
              \E j \in Events(trace[s], "alerts_evaluated") : j < k

\* a cycle has ended after persisting two rows, evaluating and broadcasting alerts
C6_Witness ==
    \E s \in Slots :
        /\ Ended(trace[s])
        /\ Cardinality(Events(trace[s], "row_inserted")) = 2
        /\ Broadcasts(trace[s], "ALERT") # {}
        /\ Broadcasts(trace[s], "STOCKS_UPDATE") # {}

\* C7. No update record of a cycle is in the store before the snapshot rows of
\* that cycle are: every stock_updates row has a stocks row of its timestamp.
C7_NoUpdateBeforeSnapshot ==
    \A u \in db.stock_updates : \E r \in db.stocks : r.timestamp = u.timestamp

\* C8. After the transactional write of a cycle's batch has failed, the store
\* holds none of that cycle's snapshot rows and none of its update records.
C8_AllOrNothing ==
    \A s \in Slots :
        (cyc[s].pc # "idle" /\ BatchSaveFailed(trace[s])) =>
            /\ \A r \in db.stocks : r.timestamp # cyc[s].result.timestamp
            /\ \A u \in db.stock_updates : u.timestamp # cyc[s].result.timestamp

\* C9. When saveStockData of the batch throws, the cycle broadcasts
\* SCRAPING_STATUS=ERROR in that very step and never a STOCKS_UPDATE, an ALERT
\* or SCRAPING_STATUS=SUCCESS.
C9_PersistenceFailureReported ==
    \A s \in Slots :
        BatchSaveFailed(trace[s]) =>
            /\ Statuses(trace[s], "ERROR") # {}
            /\ Broadcasts(trace[s], "STOCKS_UPDATE") = {}
            /\ Broadcasts(trace[s], "ALERT") = {}
            /\ Statuses(trace[s], "SUCCESS") = {}

\* a cycle has ended whose batch write failed after a row had been inserted
C9_Witness ==
    \E s \in Slots :
        /\ Ended(trace[s]) /\ BatchSaveFailed(trace[s])
        /\ Has(trace[s], "row_inserted") /\ Has(trace[s], "rollback")

\* C10. A cycle whose fetch, classification, persistence and alert evaluation
\* succeeded has, once past its broadcast step, broadcast exactly one
\* STOCKS_UPDATE, carrying the fetched batch and the cycle's update records.
C10_AlwaysBroadcasts ==
    \A s \in Slots :
        (Has(trace[s], "alerts_evaluated") /\ cyc[s].pc # "broadcast") =>
            /\ Cardinality(Broadcasts(trace[s], "STOCKS_UPDATE")) = 1
            /\ \A k \in Broadcasts(trace[s], "STOCKS_UPDATE") :
                  /\ \E f \in Events(trace[s], "fetch_ok") :
                        trace[s][k].stocks = trace[s][f].stocks
                  /\ trace[s][k].updates = UpdatesIn(trace[s])

\* a cycle has broadcast a batch with an empty update set, for which the
\* change-significance predicate is false against a cache holding that batch
C10_Witness ==
    \E s \in Slots :
        /\ Ended(trace[s])
        /\ \E k \in Broadcasts(trace[s], "STOCKS_UPDATE") :
              /\ trace[s][k].updates = <<>>
              /\ trace[s][k].stocks # <<>>
              /\ ~hasDataChangedFor(TRUE, BatchA, trace[s][k].stocks)

----------------------------------------------------------------------------
\* Reading the sends of a step

\* a cycle starts in this step
Starts(s) == cyc[s].pc = "idle" /\ cyc'[s].pc # "idle"

\* the ERROR text the protocol prescribes for a payload that is not a message
ErrorTextFor(p) ==
    IF p = "not json" THEN << "Invalid message format" >>
    ELSE << "Unknown message type: ", IF p = "{}" THEN "undefined" ELSE p >>

\* the payloads of an unknown type, and the payload that is not JSON
BadPayloads == {"SUBSCRIBE", "{}", "not json"}

\* C11. Once stop() has returned, no cycle is started by the scheduler, neither
\* by the cron task nor by the startup run that start() armed: every cycle
\* that starts while the task is stopped was triggered manually.
C11_StopCancelsScheduledCycles ==
    [][\A s \in Slots :
          (scrapingTask = "stopped" /\ Starts(s)) => cyc'[s].src = "manual"]_vars

\* C12. No error raised inside a cycle is fatal to the process: the process is
\* up in every state the orchestrator can reach.
C12_NoErrorIsFatal == processUp

\* C13. No message of a client stops the hub: whatever payload a client sends,
\* no shutdown begins, the listener and the heartbeat stay as they are, and
\* every other client stays registered.
C13_HubSurvivesAnyMessage ==
    [][\A c \in ClientIds : \A p \in Payloads :
          ClientMessage(c, p) =>
              /\ shutdown' = shutdown
              /\ wss' = wss /\ heartbeatInterval' = heartbeatInterval
              /\ clients' \ {c} = clients \ {c}]_vars

C15_CatchUpSendsSnapshot ==
    [][\A c \in ClientIds :
          ((CatchUpFire(c) \/ ClientMessage(c, "REQUEST_LATEST_DATA"))
              /\ c \in clients /\ sock[c] = "open" /\ db.stocks # {}) =>
                 /\ Len(sent') = 1
                 /\ sent'[1].to = {c}
                 /\ sent'[1].msg.type = "STOCKS_UPDATE"]_vars

\* C16. A registered client has missed at most one heartbeat tick since its
\* last pong (at the second it is evicted), and a client that has left the
\* registry never returns to it and is sent nothing any more.
C16_EvictedAfterTwoTicks ==
    /\ [](\A c \in clients : missed[c] <= 1)
    /\ [][\A c \in ClientIds :
            (sock[c] # "none" /\ c \notin clients) =>
                /\ c \notin clients'
                /\ \A i \in DOMAIN sent' : c \notin sent'[i].to]_vars

\* a broadcast has reached a client after the heartbeat evicted another one
C16_Witness ==
    /\ \E c \in ClientIds : missed[c] = 2 /\ c \notin clients
    /\ Len(sent) = 1 /\ sent[1].kind = "broadcast" /\ sent[1].to # {}

\* C17. A heartbeat tick evicts exactly the registered clients whose flag is
\* false and closes their sockets, and pings every other one with its flag
\* reset to false; the flag of a registered client is true exactly when its
\* pong has been handled since the last tick, so such a client survives the
\* tick.
C17_HeartbeatTick ==
    /\ [][HeartbeatTick =>
            /\ clients' = {c \in clients : isAlive[c]}
            /\ \A c \in clients \ clients' : sock'[c] \notin {"open", "broken"}
            /\ \A c \in clients' : ~isAlive'[c] /\ sock'[c] = sock[c]
            /\ Len(sent') = 1 /\ sent'[1].kind = "ping"
            /\ sent'[1].to = clients'
            /\ sent'[1].evicted = clients \ clients']_vars
    /\ [](\A c \in clients : isAlive[c] <=> missed[c] = 0)

\* a tick has evicted one client and pinged another
C17_Witness ==
    /\ Len(sent) = 1 /\ sent[1].kind = "ping"
    /\ sent[1].to # {} /\ sent[1].evicted # {}
    /\ \A c \in sent[1].to : c \in clients /\ ~isAlive[c]

\* C18. Each broadcast of a step is sent exactly to the clients that are
\* registered when it starts and whose socket is open and takes the send;
\* the others (send throws, or socket not open) are deleted from the registry
\* in that pass, and the next broadcast starts from the registry so left.
C18_BroadcastPerClient ==
    [][\A i \in DOMAIN sent' :
          sent'[i].kind = "broadcast" =>
              LET start == IF i = 1 THEN clients
                           ELSE sent'[i-1].before \ sent'[i-1].evicted
              IN /\ sent'[i].before = start
                 /\ sent'[i].to = {c \in start : sock[c] = "open"}
                 /\ sent'[i].evicted = start \ sent'[i].to
                 /\ (i = Len(sent')) => clients' = sent'[i].to]_vars

\* a broadcast has reached one client and evicted another whose send threw
C18_Witness ==
    /\ Len(sent) = 1 /\ sent[1].kind = "broadcast"
    /\ sent[1].to # {}
    /\ \E c \in sent[1].evicted : sock[c] = "broken"
    /\ clients = sent[1].to

\* C19. close() stops the heartbeat (no tick once the listener has left
\* "open"), closes the socket of every registered client, starts closing the
\* listener, and gracefulShutdown only goes on (the promise of close() has
\* resolved) once the listener is closed.
C19_Shutdown ==
    /\ [](wss # "open" => ~heartbeatInterval)
    /\ [](shutdown \in {"dbclose", "exited"} => wss = "closed")
    /\ [][HeartbeatTick => wss = "open"]_vars
    /\ [][(wss = "open" /\ wss' # "open") =>
            /\ wss' = "closing"
            /\ \A c \in clients : sock'[c] \notin {"open", "broken"}]_vars

\* the promise of close() has resolved with clients that were registered
C19_Witness ==
    /\ shutdown = "dbclose" /\ wss = "closed"
    /\ \E c \in ClientIds : missed[c] = 1 /\ sock[c] \in {"closing", "closed"}
    /\ \E c \in ClientIds : sock[c] \in {"closing", "closed"} /\ c \in clients

\* C20. A step of analyzeStockChanges on a stock that has no earlier row in
\* the store inserts exactly one update record, of change type NEW, for it.
C20_NewWithoutPrevious ==
    [][\A s \in Slots :
          AnalyzeStep(s) =>
              LET cur == cyc[s].result.data[cyc[s].idx]
                  ups == cyc'[s].stockUpdates
              IN PreviousStockRow(db, cur.symbol, cur.timestamp) = None =>
                    /\ Len(ups) = Len(cyc[s].stockUpdates) + 1
                    /\ ups[Len(ups)].changeType = "NEW"
                    /\ ups[Len(ups)].currentData = cur
                    /\ Cardinality(db'.stock_updates \ db.stock_updates) = 1
                    /\ \A u \in db'.stock_updates \ db.stock_updates :
                          /\ u.change_type = "NEW"
                          /\ u.timestamp = cur.timestamp
                          /\ u.current_price = cur.premarketPrice]_vars

\* a symbol new to the store has been classified next to a known one
C20_Witness ==
    \E s \in Slots :
        /\ cyc[s].pc # "idle"
        /\ Len(cyc[s].stockUpdates) = 2
        /\ cyc[s].stockUpdates[1].changeType = "PRICE_INCREASE"
        /\ cyc[s].stockUpdates[2].changeType = "NEW"
        /\ cyc[s].stockUpdates[2].currentData.symbol = "TSLA"

----------------------------------------------------------------------------
\* Claims on the classifier, the alert engine and the prune throttle

\* C29: pruning is throttled: any two calls of cleanOldData are at least one
\* hour of wall clock apart. The code keeps them more than one hour apart: a
\* call is made only by a cycle that started more than one hour before, and
\* that cycle started after the call before it.
C29_PruneThrottled ==
    \A i, j \in 1..Len(prunes) : i < j => prunes[j] - prunes[i] > Hour

\* cleanOldData has been called twice
C29_Witness == Len(prunes) >= 2

\* the step of cycle s that follows checkForAlerts has sent, in this order:
\* the STOCKS_UPDATE, one ALERT per alert of the list, the SUCCESS status with
\* the two counts
SentInOrder(s) ==
    LET alerts == cyc[s].alerts
        n      == Len(alerts)
    IN /\ Len(sent') = n + 2
       /\ sent'[1].msg.type = "STOCKS_UPDATE"
       /\ \A i \in 1..n :
             /\ sent'[i + 1].msg.type = "ALERT"
             /\ sent'[i + 1].msg.alertType = alerts[i].alertType
             /\ sent'[i + 1].msg.symbol = alerts[i].stock.symbol
       /\ sent'[n + 2].msg.type = "SCRAPING_STATUS"
       /\ sent'[n + 2].msg.status = "SUCCESS"
       /\ sent'[n + 2].msg.text[2] = Len(cyc[s].result.data)
       /\ sent'[n + 2].msg.text[4] = n

\* C28: a successful cycle broadcasts the STOCKS_UPDATE first, then one ALERT
\* per alert in the order of the alert list, then SCRAPING_STATUS=SUCCESS with
\* the stock and alert counts; no ALERT is broadcast by any other step, so none
\* comes before the STOCKS_UPDATE or after the SUCCESS of its cycle.
C28_BroadcastOrder ==
    [][ /\ \A s \in Slots : BroadcastStep(s) => SentInOrder(s)
        /\ (\E i \in DOMAIN sent' : sent'[i].msg.type \in {"ALERT", "STOCKS_UPDATE"})
              => \E s \in Slots : BroadcastStep(s) ]_vars

\* a cycle has just broadcast its update, alerts of two types for two symbols,
\* and its SUCCESS status
C28_Witness ==
    /\ Len(sent) >= 5
    /\ sent[1].msg.type = "STOCKS_UPDATE"
    /\ sent[2].msg.type = "ALERT" /\ sent[2].msg.alertType = "NEW_TOP_GAINER"
    /\ sent[3].msg.type = "ALERT" /\ sent[3].msg.alertType = "TOP_PERFORMER"
    /\ sent[3].msg.symbol # sent[4].msg.symbol
    /\ sent[Len(sent)].msg.status = "SUCCESS"

\* the batch without its fetch time
Undated(stocks) == [i \in DOMAIN stocks |-> [stocks[i] EXCEPT !.timestamp = 0]]

\* cycle s has fetched the second batch of the example, on a store whose
\* earlier snapshots are the first batch of the example and nothing else
SecondCycleOfExample(s) ==
    /\ Undated(cyc[s].result.data) = BatchB
    /\ \E r \in db.stocks :
          /\ {q \in db.stocks : q.timestamp < cyc[s].result.timestamp} = {r}
          /\ r.symbol = "AAPL" /\ r.rank = 1
          /\ r.premarket_price = 100 /\ r.percent_change = 5

\* the ALERT messages of type t for symbol sym among the sends recs
AlertsSent(recs, t, sym) ==
    {i \in DOMAIN recs : /\ recs[i].msg.type = "ALERT"
                         /\ recs[i].msg.alertType = t
                         /\ recs[i].msg.symbol = sym}

\* C24: on an empty store, after a cycle on [AAPL rank 1 price 100 pct 5], a
\* successful cycle on [AAPL rank 1 price 102 pct 7, TSLA rank 2 price 200
\* pct 10] broadcasts one STOCKS_UPDATE with both snapshots and two update
\* records, AAPL PRICE_INCREASE with amount 2 and percent 2 and TSLA NEW, and
\* one TOP_PERFORMER alert for each of AAPL and TSLA.
C24_TwoCycleExample ==
    [][ \A s \in Slots :
          BroadcastStep(s) /\ SecondCycleOfExample(s) =>
            LET m == sent'[1].msg
            IN /\ {i \in DOMAIN sent' : sent'[i].msg.type = "STOCKS_UPDATE"} = {1}
               /\ Undated(m.stocks) = BatchB
               /\ Len(m.updates) = 2
               /\ m.updates[1].currentData.symbol = "AAPL"
               /\ m.updates[1].changeType = "PRICE_INCREASE"
               /\ m.updates[1].changeAmount = Some(2)
               /\ m.updates[1].changePercent # None
               /\ m.updates[1].changePercent[1].num = 2 * m.updates[1].changePercent[1].den
               /\ m.updates[2].currentData.symbol = "TSLA"
               /\ m.updates[2].changeType = "NEW"
               /\ Cardinality(AlertsSent(sent', "TOP_PERFORMER", "AAPL")) = 1
               /\ Cardinality(AlertsSent(sent', "TOP_PERFORMER", "TSLA")) = 1 ]_vars

\* the second cycle of the example has made its broadcasts: the store holds
\* the AAPL snapshots at 100 and at 102 and nothing older than these two
C24_Witness ==
    /\ sent # <<>>
    /\ sent[1].msg.type = "STOCKS_UPDATE"
    /\ Undated(sent[1].msg.stocks) = BatchB
    /\ sent[Len(sent)].msg.status = "SUCCESS"
    /\ {r.premarket_price : r \in {q \in db.stocks : q.symbol = "AAPL"}} = {100, 102}
    /\ Cardinality({q \in db.stocks : q.symbol = "AAPL"}) = 2

\* the stock that this step of the loop of analyzeStockChanges looks at
Cur(s) == cyc[s].result.data[cyc[s].idx]

\* r is the snapshot row the store holds as the latest one of cur's symbol
\* from before cur
IsPrevOf(r, cur) ==
    /\ r \in db.stocks
    /\ r.symbol = cur.symbol
    /\ r.timestamp < cur.timestamp
    /\ \A q \in db.stocks :
          q.symbol = cur.symbol /\ q.timestamp < cur.timestamp
             => q.timestamp <= r.timestamp

\* the update records this step of cycle s adds to the list of the cycle
Added(s) ==
    SubSeq(cyc'[s].stockUpdates, Len(cyc[s].stockUpdates) + 1,
           Len(cyc'[s].stockUpdates))

\* C21: when the price of cur differs from the price of prev, the update
\* record is PRICE_INCREASE for a higher and PRICE_DECREASE for a lower price,
\* whatever the ranks; changeAmount is cur.price - prev.price and
\* changePercent is changeAmount / prev.price * 100.
C21_PriceChange ==
    [][ \A s \in Slots : AnalyzeStep(s) =>
          \A r \in db.stocks :
             IsPrevOf(r, Cur(s)) /\ Cur(s).premarketPrice # r.premarket_price =>
                LET amount == Cur(s).premarketPrice - r.premarket_price
                IN /\ Len(Added(s)) = 1
                   /\ Added(s)[1].changeType =
                         (IF amount > 0 THEN "PRICE_INCREASE" ELSE "PRICE_DECREASE")
                   /\ Added(s)[1].changeAmount = Some(amount)
                   /\ Added(s)[1].changePercent # None
                   /\ Added(s)[1].changePercent[1].num * r.premarket_price
                         = amount * 100 * Added(s)[1].changePercent[1].den ]_vars

\* a cycle holds a PRICE_DECREASE record with a negative amount for a stock
\* whose rank changed as well
C21_Witness ==
    \E s \in Slots : \E i \in DOMAIN cyc[s].stockUpdates :
        LET u == cyc[s].stockUpdates[i]
        IN /\ u.changeType = "PRICE_DECREASE"
           /\ u.changeAmount = Some(-10)
           /\ u.previousData.rank # u.currentData.rank

\* the snapshot of cur is among the rows the store holds and among the
\* stocks of the STOCKS_UPDATE message m
PersistedAndBroadcast(cur, d, m) ==
    /\ \E q \in d.stocks :
          /\ q.symbol = cur.symbol /\ q.timestamp = cur.timestamp
          /\ q.premarket_price = cur.premarketPrice /\ q.rank = cur.rank
          /\ q.percent_change = cur.percentChange
          /\ q.premarket_volume = cur.premarketVolume
    /\ \E i \in DOMAIN m.stocks : m.stocks[i] = cur

\* C22: when cur has the price and the rank of prev, the cycle emits no update
\* record for the symbol, whatever the other fields are; the snapshot is still
\* in the batch that is persisted and broadcast.
C22_NoChangeNoUpdate ==
    [][ \A s \in Slots :
          /\ AnalyzeStep(s) =>
                \A r \in db.stocks :
                   /\ IsPrevOf(r, Cur(s))
                   /\ Cur(s).premarketPrice = r.premarket_price
                   /\ Cur(s).rank = r.rank
                   => Added(s) = <<>> /\ db'.stock_updates = db.stock_updates
          /\ BroadcastStep(s) =>
                \A k \in DOMAIN cyc[s].result.data : \A r \in db.stocks :
                   LET cur == cyc[s].result.data[k]
                   IN /\ IsPrevOf(r, cur)
                      /\ cur.premarketPrice = r.premarket_price
                      /\ cur.rank = r.rank
                      => /\ PersistedAndBroadcast(cur, db, sent'[1].msg)
                         /\ \A i \in DOMAIN sent'[1].msg.updates :
                               sent'[1].msg.updates[i].currentData.symbol # cur.symbol
        ]_vars

\* a cycle has broadcast a batch of two stocks with an update record for one
\* only: the other has the price and rank of its earlier snapshot, and another
\* percentChange, volume, name and market cap
C22_Witness ==
    /\ sent # <<>>
    /\ sent[1].msg.type = "STOCKS_UPDATE"
    /\ Len(sent[1].msg.stocks) = 2
    /\ Len(sent[1].msg.updates) = 1
    /\ sent[1].msg.updates[1].currentData.symbol = "TSLA"
    /\ \E i \in DOMAIN sent[1].msg.stocks : \E r \in db.stocks :
          LET cur == sent[1].msg.stocks[i]
          IN /\ r.symbol = cur.symbol /\ r.timestamp < cur.timestamp
             /\ r.premarket_price = cur.premarketPrice /\ r.rank = cur.rank
             /\ r.percent_change # cur.percentChange
             /\ r.premarket_volume # cur.premarketVolume
             /\ r.company_name # cur.companyName

\* C30: when cur has the price of prev and another rank, exactly one update
\* record is emitted and it is a RANK_CHANGE; when the price differs too, the
\* record is not a RANK_CHANGE.
C30_RankChange ==
    [][ \A s \in Slots : AnalyzeStep(s) =>
          \A r \in db.stocks :
             IsPrevOf(r, Cur(s)) /\ Cur(s).rank # r.rank =>
                IF Cur(s).premarketPrice = r.premarket_price
                THEN /\ Len(Added(s)) = 1
                     /\ Added(s)[1].changeType = "RANK_CHANGE"
                     /\ Cardinality(db'.stock_updates) = Cardinality(db.stock_updates) + 1
                ELSE \A i \in DOMAIN Added(s) : Added(s)[i].changeType # "RANK_CHANGE"
        ]_vars

\* a cycle holds a RANK_CHANGE record of a stock whose price stayed
C30_Witness ==
    \E s \in Slots : \E i \in DOMAIN cyc[s].stockUpdates :
        LET u == cyc[s].stockUpdates[i]
        IN /\ u.changeType = "RANK_CHANGE"
           /\ u.previousData.premarketPrice = u.currentData.premarketPrice
           /\ u.previousData.rank = 12 /\ u.currentData.rank = 4

\* the alerts of type t in the list alerts
AlertsOf(alerts, t) ==
    {alerts[i] : i \in {j \in DOMAIN alerts : alerts[j].alertType = t}}

\* how many alerts of type t the list alerts holds for stock symbol sym
AlertCountFor(alerts, t, sym) ==
    Cardinality({i \in DOMAIN alerts : /\ alerts[i].alertType = t
                                       /\ alerts[i].stock.symbol = sym})

\* how many alerts of type t the list alerts holds on update record u
AlertCountOn(alerts, t, u) ==
    Cardinality({i \in DOMAIN alerts : /\ alerts[i].alertType = t
                                       /\ alerts[i].update = u})

\* the snapshot of the batch that checkForAlerts pairs with update u
StockOf(data, u) ==
    data[CHOOSE k \in DOMAIN data :
            /\ data[k].symbol = u.currentData.symbol
            /\ \A j \in DOMAIN data :
                  data[j].symbol = u.currentData.symbol => k <= j]

\* C23: with the enabled rule {minPercentChange: 20} and a symbol whose
\* percentChange is 25, every cycle in which this holds produces exactly one
\* CUSTOM_RULE alert for the symbol, also when its price and rank are those
\* of the cycle before.
C23_RuleFiresEveryCycle ==
    [][ \A s \in Slots :
          AlertsDone(s) /\ db.alert_rules = InitialRules =>
             \A k \in DOMAIN cyc[s].result.data :
                cyc[s].result.data[k].percentChange = 25 =>
                   AlertCountFor(cyc'[s].alerts, "CUSTOM_RULE",
                                 cyc[s].result.data[k].symbol) = 1
      ]_vars

\* the threshold opt of a rule row is specified and x is at least (at most) it
AtLeast(x, opt) == opt # None /\ x >= opt[1]
AtMost(x, opt) == opt # None /\ x <= opt[1]

\* the rule rows of table rules that are due for stock: enabled, symbol filter
\* absent or matching, one of the specified thresholds met
DueRules(rules, stock) ==
    {n \in DOMAIN rules :
        /\ rules[n].enabled = 1
        /\ rules[n].symbol = Null \/ rules[n].symbol = stock.symbol
        /\ \/ AtLeast(stock.percentChange, rules[n].min_percent_change)
           \/ AtMost(stock.percentChange, rules[n].max_percent_change)
           \/ AtLeast(stock.premarketVolume, rules[n].min_volume)}

\* C25: for each update record, each active rule whose symbol filter is absent
\* or matches emits exactly one CUSTOM_RULE alert if percentChange >= its
\* minPercentChange or percentChange <= its maxPercentChange or volume >= its
\* minVolume, over the thresholds it specifies, and none otherwise; other
\* rules emit none.
C25_CustomRules ==
    [][ \A s \in Slots : AlertsDone(s) =>
          \A j \in DOMAIN cyc[s].stockUpdates :
             LET u == cyc[s].stockUpdates[j]
             IN AlertCountOn(cyc'[s].alerts, "CUSTOM_RULE", u)
                  = Cardinality(DueRules(db.alert_rules,
                                         StockOf(cyc[s].result.data, u))) ]_vars

\* C26: a successfully evaluated cycle emits one TOP_PERFORMER alert for each
\* snapshot of the batch with rank <= 3 and none for any other, whether or not
\* the symbol has an update record and whatever earlier cycles emitted.
C26_TopPerformers ==
    [][ \A s \in Slots : AlertsDone(s) =>
          /\ \A k \in DOMAIN cyc[s].result.data :
                AlertCountFor(cyc'[s].alerts, "TOP_PERFORMER",
                              cyc[s].result.data[k].symbol)
                  = IF cyc[s].result.data[k].rank <= 3 THEN 1 ELSE 0
          /\ \A a \in AlertsOf(cyc'[s].alerts, "TOP_PERFORMER") :
                \E k \in DOMAIN cyc[s].result.data :
                   a.stock = cyc[s].result.data[k] ]_vars

\* the second cycle has evaluated a batch of two: AAPL at rank 2 as in the
\* first cycle, with no update record, and TSLA; both have their alert
C26_Witness ==
    \E s \in Slots :
        /\ cyc[s].pc = "broadcast"
        /\ Len(cyc[s].result.data) = 2
        /\ \A i \in DOMAIN cyc[s].stockUpdates :
              cyc[s].stockUpdates[i].currentData.symbol # "AAPL"
        /\ \E r \in db.stocks :
              r.symbol = "AAPL" /\ r.rank = 2 /\ r.timestamp < cyc[s].result.timestamp
        /\ \E a \in AlertsOf(cyc[s].alerts, "TOP_PERFORMER") :
              a.stock.symbol = "AAPL" /\ a.stock.rank = 2
        /\ AlertCountFor(cyc[s].alerts, "TOP_PERFORMER", "TSLA") = 1

\* the condition of the built-in alert of type t on update u and its stock
BuiltInHolds(t, stock, u) ==
    IF t = "HIGH_GAIN" THEN stock.percentChange >= 20
    ELSE IF t = "PRICE_SPIKE"
         THEN /\ u.changeType = "PRICE_INCREASE"
              /\ u.changePercent # None
              /\ u.changePercent[1].num > 15 * u.changePercent[1].den
    ELSE IF t = "NEW_TOP_GAINER" THEN u.changeType = "NEW" /\ stock.rank <= 10
    ELSE IF t = "RANK_IMPROVEMENT"
         THEN u.changeType = "RANK_CHANGE"
              /\ u.previousData.rank - u.currentData.rank >= 10
    ELSE stock.premarketVolume > 1000000

BuiltInTypes ==
    {"HIGH_GAIN", "PRICE_SPIKE", "NEW_TOP_GAINER", "RANK_IMPROVEMENT", "HIGH_VOLUME"}

\* C27: for each update record the built-in alerts are exactly those whose
\* condition holds, one each and each independently of the others: HIGH_GAIN
\* iff percentChange >= 20, PRICE_SPIKE iff PRICE_INCREASE with changePercent
\* > 15, NEW_TOP_GAINER iff NEW with rank <= 10, RANK_IMPROVEMENT iff
\* RANK_CHANGE with prevRank - curRank >= 10, HIGH_VOLUME iff volume > 1,000,000.
C27_BuiltInAlerts ==
    [][ \A s \in Slots : AlertsDone(s) =>
          \A j \in DOMAIN cyc[s].stockUpdates : \A t \in BuiltInTypes :
             LET u == cyc[s].stockUpdates[j]
             IN AlertCountOn(cyc'[s].alerts, t, u)
                  = IF BuiltInHolds(t, StockOf(cyc[s].result.data, u), u)
                    THEN 1 ELSE 0 ]_vars

\* one update record has raised HIGH_GAIN, PRICE_SPIKE and HIGH_VOLUME at once
C27_Witness ==
    \E s \in Slots : \E j \in DOMAIN cyc[s].stockUpdates :
        \A t \in {"HIGH_GAIN", "PRICE_SPIKE", "HIGH_VOLUME"} :
            AlertCountOn(cyc[s].alerts, t, cyc[s].stockUpdates[j]) = 1

----------------------------------------------------------------------------
\* Sinks, terminal statuses and the prune check

\* the terminal statuses a cycle has broadcast
TerminalStatuses(tr) == Statuses(tr, "SUCCESS") \cup Statuses(tr, "ERROR")

\* C35. Every executed cycle broadcasts exactly one SCRAPING_STATUS=STARTED
\* and, after it, exactly one terminal status, SUCCESS or ERROR and never
\* both, on every path, a failure of the prune step after the SUCCESS
\* broadcast included.
C35_OneTerminalStatus ==
    \A s \in Slots :
        Ended(trace[s]) =>
            /\ Cardinality(Statuses(trace[s], "STARTED")) = 1
            /\ Cardinality(TerminalStatuses(trace[s])) = 1
            /\ \A i \in Statuses(trace[s], "STARTED") :
                  \A j \in TerminalStatuses(trace[s]) : i < j

----------------------------------------------------------------------------
\* Claims on the custom rules

\* the messages of the three conditions of a rule, in the order of the checks
RuleMessages ==
    << "minimum gain threshold", "maximum gain threshold",
       "minimum volume threshold" >>

\* the message of the first condition of rule row r that holds for stock
FirstMatching(r, stock) ==
    IF AtLeast(stock.percentChange, r.min_percent_change) THEN RuleMessages[1]
    ELSE IF AtMost(stock.percentChange, r.max_percent_change) THEN RuleMessages[2]
    ELSE RuleMessages[3]

\* no threshold of the table is 0
NoZeroThreshold(rules) ==
    \A n \in DOMAIN rules :
        /\ rules[n].min_percent_change # Some(0)
        /\ rules[n].max_percent_change # Some(0)
        /\ rules[n].min_volume # Some(0)

\* how many CUSTOM_RULE alerts with message m the list alerts holds on update u
RuleAlertCount(alerts, u, m) ==
    Cardinality({i \in DOMAIN alerts : /\ alerts[i].alertType = "CUSTOM_RULE"
                                       /\ alerts[i].update = u
                                       /\ alerts[i].message = m})

\* C34. When several conditions of one custom rule hold for a stock, the first
\* matching condition wins in the order minPercentChange, maxPercentChange,
\* minVolume: the CUSTOM_RULE alert of the rule carries the message of the
\* first condition that holds (on tables without a zero threshold, for each
\* update record and each message, as many alerts as there are due rules
\* whose first matching condition has that message).
C34_FirstConditionWins ==
    [][ \A s \in Slots :
          AlertsDone(s) /\ NoZeroThreshold(db.alert_rules) =>
             \A j \in DOMAIN cyc[s].stockUpdates :
                LET u     == cyc[s].stockUpdates[j]
                    stock == StockOf(cyc[s].result.data, u)
                    due   == DueRules(db.alert_rules, stock)
                IN \A k \in DOMAIN RuleMessages :
                      RuleAlertCount(cyc'[s].alerts, u, RuleMessages[k])
                        = Cardinality({n \in due :
                             FirstMatching(db.alert_rules[n], stock)
                               = RuleMessages[k]}) ]_vars

\* C36. A write that createAlertRule, updateAlertRule or deleteAlertRule made
\* on the shared connection while saveStockData had its transaction open is
\* never undone by the ROLLBACK of that transaction: the step that rolls back
\* leaves the alert_rules table, with every acknowledged change, as it is.
C36_RuleWriteSurvivesRollback ==
    [][ (\E s \in Slots : SaveRollback(s)) =>
            db'.alert_rules = db.alert_rules ]_vars

\* C37. The manual-trigger endpoint answers 409 exactly when a cycle is
\* running at the time of the request, and then starts nothing; whenever it
\* answers 'triggered', that request has started exactly one cycle, a manual
\* one: its own call is never the one the single-flight guard drops, however
\* trigger requests and timer firings interleave.
C37_TriggerAnswer ==
    [][ triggerManualScraping =>
          /\ response'.status \in {200, 409}
          /\ (response'.status = 409) <=> (ActiveSlots # {})
          /\ response'.status = 409 =>
                UNCHANGED <<isRunning, lastRun, nextRun, cyc, trace, lastCall>>
          /\ response'.status = 200 =>
                /\ response'.body = "triggered"
                /\ lastCall' = "started"
                /\ Cardinality({s \in Slots : Starts(s)}) = 1
                /\ \A s \in Slots : Starts(s) => cyc'[s].src = "manual" ]_vars

\* a trigger request was answered 409 while the cycle that an earlier trigger
\* request started was persisting its batch, after a timer firing was dropped
C37_Witness ==
    /\ response.status = 409
    /\ lastCall = "dropped"
    /\ \E s \in Slots : cyc[s].src = "manual" /\ cyc[s].pc = "save_rows"
    /\ scrapingTask = "running"

\* rule row r has a threshold that is evaluated: one that is neither absent
\* nor 0
HasThreshold(r) ==
    \/ Truthy(r.min_percent_change)
    \/ Truthy(r.max_percent_change)
    \/ Truthy(r.min_volume)

\* the rule rows that fire for stock when absent and zero thresholds are not
\* evaluated
FiringRules(rules, stock) ==
    {n \in DOMAIN rules :
        /\ rules[n].enabled = 1
        /\ rules[n].symbol = Null \/ rules[n].symbol = stock.symbol
        /\ \/ Truthy(rules[n].min_percent_change)
              /\ stock.percentChange >= rules[n].min_percent_change[1]
           \/ Truthy(rules[n].max_percent_change)
              /\ stock.percentChange <= rules[n].max_percent_change[1]
           \/ Truthy(rules[n].min_volume)
              /\ stock.premarketVolume >= rules[n].min_volume[1]}

----------------------------------------------------------------------------
\* Claims on the update records of a cycle

\* the change types the classifier produces
ChangeTypes == {"NEW", "PRICE_INCREASE", "PRICE_DECREASE", "RANK_CHANGE"}

\* the symbols that have a stored snapshot older than ts and no entry in data
Vanished(d, data, ts) ==
    {r.symbol : r \in {q \in d.stocks : q.timestamp < ts}}
        \ {data[k].symbol : k \in DOMAIN data}

\* C31. The classifier never produces REMOVED: in every cycle each update
\* record has one of the four other change types and refers to an entry of
\* the current batch, no batch entry has more than one update record, and a
\* symbol that was stored in an earlier cycle but is absent from the current
\* batch gets no update record, neither in the list nor in the store.
C31_NoRemoved ==
    /\ \A u \in db.stock_updates : u.change_type \in ChangeTypes
    /\ \A s \in Slots :
          cyc[s].pc # "idle" =>
             LET data    == cyc[s].result.data
                 updates == cyc[s].stockUpdates
             IN /\ \A j \in DOMAIN updates :
                      /\ updates[j].changeType \in ChangeTypes
                      /\ \E k \in DOMAIN data : updates[j].currentData = data[k]
                /\ \A k \in DOMAIN data :
                      Cardinality({j \in DOMAIN updates :
                                      updates[j].currentData.symbol = data[k].symbol}) <= 1
                /\ \A sym \in Vanished(db, data, cyc[s].result.timestamp) :
                      \A j \in DOMAIN updates : updates[j].currentData.symbol # sym
                /\ Cardinality({u \in db.stock_updates :
                                   u.timestamp = cyc[s].result.timestamp})
                     <= Len(updates)

\* the second cycle has classified a batch of AAPL and TSLA, one update record
\* each, while MSFT, stored by the first cycle, is absent from the batch
C31_Witness ==
    \E s \in Slots :
        /\ cyc[s].pc = "alerts"
        /\ Len(cyc[s].result.data) = 2 /\ Len(cyc[s].stockUpdates) = 2
        /\ Vanished(db, cyc[s].result.data, cyc[s].result.timestamp) = {"MSFT"}

\* C32. The previous snapshot a stock is classified against is the persisted
\* snapshot of its symbol with the greatest timestamp strictly before the
\* current one, from whichever earlier cycle persisted it: the record of the
\* step, if there is one, carries that snapshot as previousData and is not
\* NEW, also when the symbol was absent from the cycle just before; the
\* record is NEW only when the store holds no earlier snapshot of the symbol.
C32_NearestPersisted ==
    [][ \A s \in Slots : AnalyzeStep(s) =>
          /\ (\A r \in db.stocks : ~IsPrevOf(r, Cur(s))) =>
                /\ Len(Added(s)) = 1
                /\ Added(s)[1].changeType = "NEW"
          /\ \A r \in db.stocks :
                IsPrevOf(r, Cur(s)) =>
                   LET prev == mapDatabaseStockToStockData(r)
                   IN /\ Len(Added(s)) =
                           (IF determineChangeType(prev, Cur(s)) = Null THEN 0 ELSE 1)
                      /\ \A i \in DOMAIN Added(s) :
                            /\ Added(s)[i].changeType # "NEW"
                            /\ Added(s)[i].changeType = determineChangeType(prev, Cur(s))
                            /\ Added(s)[i].previousData = prev ]_vars

\* the third cycle has classified TSLA as a RANK_CHANGE against the snapshot
\* the first cycle stored, the second cycle having stored AAPL alone
C32_Witness ==
    \E s \in Slots : \E j \in DOMAIN cyc[s].stockUpdates :
        LET u == cyc[s].stockUpdates[j]
        IN /\ u.currentData.symbol = "TSLA" /\ u.changeType = "RANK_CHANGE"
           /\ u.currentData.timestamp = 3 /\ u.previousData.timestamp = 1
           /\ \E r \in db.stocks : r.symbol = "AAPL" /\ r.timestamp = 2
           /\ \A r \in db.stocks : r.symbol = "TSLA" => r.timestamp # 2

----------------------------------------------------------------------------
\* Claims on the last-broadcast cache

\* some symbol of both batches differs by more than a threshold: price or
\* percentage by more than one hundredth, volume by more than 1000, the rank
\* or the company name at all
OverThreshold(lastData, newStocks) ==
    \E sym \in SymbolsOf(newStocks) \cap SymbolsOf(lastData) :
        LET old == MapGet(lastData, sym)
            new == MapGet(newStocks, sym)
        IN \/ Abs(new.premarketPrice - old.premarketPrice) > 1
           \/ Abs(new.percentChange - old.percentChange) > 1
           \/ Abs(new.premarketVolume - old.premarketVolume) > 1000
           \/ new.rank # old.rank
           \/ new.companyName # old.companyName

\* C33. hasDataChanged(new) is true if and only if no batch has been recorded
\* since construction or the last reset, or the symbol sets of new and of the
\* cache differ, or some symbol has a price delta above 0.01, a percentage
\* delta above 0.01, a volume delta above 1000, another rank or another
\* company name; a delta exactly equal to its threshold does not count.
C33_ChangedIffOverThreshold ==
    \A newStocks \in SignificanceBatches :
        hasDataChanged(newStocks) <=>
            \/ ~hasEverBroadcast
            \/ SymbolsOf(newStocks) # SymbolsOf(lastBroadcastData)
            \/ OverThreshold(lastBroadcastData, newStocks)

----------------------------------------------------------------------------
\* Claims on the registry of the hub

\* client c has been connected and is no longer registered
Removed(c) == sock[c] # "none" /\ c \notin clients

\* C39. No message is sent to a connection that is not in the registry. A
\* client leaves the registry on the close event of its socket, on its error
\* event, when a heartbeat tick finds its liveness flag false, and when a send
\* to it fails; once it has left, it is never registered again and no step
\* sends it anything, be it a broadcast, the catch-up armed at its connection
\* or the reply to a message of its own; and the step that registers a client
\* sends it its CONNECTION acknowledgment first.
C39_OnlyRegisteredClients ==
    /\ [][\A i \in DOMAIN sent' :
            /\ sent'[i].to \subseteq sent'[i].before
            /\ sent'[i].to \subseteq clients \cup (clients' \ clients)
            /\ sent'[i].to \subseteq clients'
            /\ sent'[i].evicted \cap clients' = {}]_vars
    /\ [][\A c \in ClientIds :
            /\ (sock[c] = "closing" /\ sock'[c] = "closed") => c \notin clients'
            /\ ErrorEvent(c) => c \notin clients'
            /\ (HeartbeatTick /\ c \in clients /\ ~isAlive[c]) =>
                  c \notin clients' /\ c \notin sent'[1].to
            /\ Removed(c) =>
                  /\ c \notin clients'
                  /\ \A i \in DOMAIN sent' : c \notin sent'[i].to
            /\ (c \notin clients /\ c \in clients') =>
                  /\ sock[c] = "none"
                  /\ sent' # <<>>
                  /\ sent'[1].msg.type = "CONNECTION"
                  /\ sent'[1].to = {c}]_vars

\* a broadcast has reached one client and evicted another, whose send threw
\* and whose catch-up timer is still armed
C39_Witness ==
    /\ Len(sent) = 1 /\ sent[1].kind = "broadcast"
    /\ \E c \in sent[1].evicted :
          Removed(c) /\ sock[c] = "broken" /\ catchUp[c]
    /\ sent[1].to # {} /\ sent[1].to = clients

====
